---- MODULE Spec2Model ----
(***************************************************************************)
(* NodeFlow v1.2 execution kernel: the BaseNode.execute() wrapper, the     *)
(* Runner (scheduler), PipelineNode and LoopNode, as a state machine.      *)
(*                                                                         *)
(* One root container (a PipelineNode, or a LoopNode wrapping one) owns a  *)
(* graph of leaf nodes.  The leaves are user code: what a leaf's hooks and *)
(* run() do in a call is an input of the action that calls it.             *)
(***************************************************************************)
EXTENDS Integers, Sequences, FiniteSets, TLC

\* ------------------------------------------------------------------ bounds
\* No execute() is entered once the root's read_node_calls() has reached it.
MaxCalls == 5
\* Payload values of an output port are 1..MaxVal.
MaxVal == 2
\* Ticks of the monotonic clock that are told apart while the graph is idle.
MaxClock == 1

\* Python's None where a number is expected.
None == 0 - 1

Ids == {"a", "b"}

\* ------------------------------------------------------------- dict helpers
EmptyDict == [k \in {} |-> 0]

Put(d, k, v) == [q \in (DOMAIN d) \cup {k} |-> IF q = k THEN v ELSE d[q]]

Min(S) == CHOOSE m \in S : \A o \in S : m <= o

\* ------------------------------------------------------------------- values
\* A port value: payload v, the shape of its "_meta" entry, and _meta.revision.
\*   meta = "absent"     a dict without "_meta"
\*   meta = "dict"       "_meta" is a dict without hash_skip
\*   meta = "hash_skip"  "_meta" is a dict with hash_skip = True
\*   meta = "str"        "_meta" is the string "x" (not a dict)
\*   meta = "revstr"     "_meta" is the string "revision"
\*   meta = "notadict"   the port value itself is not a dict
NoRev == [kind |-> "none", n |-> 0]

CallerRev == [kind |-> "caller", n |-> 0]

UuidRevs == {[kind |-> "uuid", n |-> k] : k \in 1..2}

PortValue(v, meta, rev) == [v |-> v, meta |-> meta, rev |-> rev]

NotADict == PortValue(0, "notadict", NoRev)

\* The sentinel of loader.py; a pipeline-input value; a literal binding.
UNRESOLVED == PortValue(0, "UNRESOLVED", NoRev)

InputValue(k) == PortValue(k, "input", NoRev)

LiteralValue == PortValue(0, "literal", NoRev)

\* What the leaves' run() hands back as one port value.
RawPortValues ==
    {NotADict}
    \cup {PortValue(k, "absent", NoRev) : k \in 1..MaxVal}
    \cup {PortValue(1, "str", NoRev), PortValue(1, "revstr", NoRev),
          PortValue(1, "dict", CallerRev)}

\* A result of two ports that both fail in _apply_revision_to_output: the
\* "_meta" of port out is a string, port aux is not a dict.
TwoPortOutput == [p \in {"out", "aux"} |-> IF p = "out" THEN PortValue(1, "str", NoRev) ELSE NotADict]

\* A result of two ports that both pass _apply_revision_to_output.
TwoPortResult == [p \in {"out", "aux"} |-> PortValue(IF p = "out" THEN 1 ELSE 2, "absent", NoRev)]

RawOutputs ==
    {EmptyDict, TwoPortOutput, TwoPortResult} \cup {[p \in {"out"} |-> pv] : pv \in RawPortValues}

\* The orders the items() of dict d can have: every list of its keys.
ItemOrders(d) ==
    {o \in [1..Cardinality(DOMAIN d) -> DOMAIN d] :
        \A i, j \in 1..Cardinality(DOMAIN d) : o[i] = o[j] => i = j}

\* What a call of run() does: it returns a value, or raises.  order lists the
\* keys of a returned dict in the order of its items().
Returns(isdict, ports, order) ==
    [kind |-> "return", exc |-> "", isdict |-> isdict, ports |-> ports, order |-> order]

Raises(kind, exc) ==
    [kind |-> kind, exc |-> exc, isdict |-> FALSE, ports |-> EmptyDict, order |-> <<>>]

RunOutcomes ==
    {Raises("PauseSignal", ""), Raises("LimitSignal", ""), Raises("Exception", "RuntimeError")}
    \cup {Returns(FALSE, EmptyDict, <<>>)}
    \cup UNION {{Returns(TRUE, d, o) : o \in ItemOrders(d)} : d \in RawOutputs}

\* What a leaf does in one execute(): its pre-limit hook, its run(), its
\* post-limit hook, and the uuid4() drawn if a port asks for hash_skip.
DefaultUuid == [kind |-> "uuid", n |-> 1]

HasHashSkip(run) ==
    run.kind = "return" /\ run.isdict /\ \E p \in DOMAIN run.ports : run.ports[p].meta = "hash_skip"

Behaviours ==
    {[pre |-> TRUE, run |-> Returns(TRUE, EmptyDict, <<>>), post |-> FALSE, uuid |-> DefaultUuid]}
    \cup {b \in [pre : {FALSE}, run : RunOutcomes, post : BOOLEAN, uuid : UuidRevs] :
            /\ b.post => (b.run.kind = "return" /\ b.run.isdict)
            /\ (b.uuid # DefaultUuid) => HasHashSkip(b.run)}

\* No execute() yet.
NoBehaviour == [pre |-> FALSE, run |-> Returns(FALSE, EmptyDict, <<>>), post |-> FALSE, uuid |-> DefaultUuid]

\* ------------------------------------------------------- revision stamping
\* _strip_meta, _canonical_bytes and sha256: the digest depends on the payload
\* alone; distinct payloads have distinct digests.
Sha256OfPayload(pv) == [kind |-> "sha256", n |-> pv.v]

\* One round of the loop of _apply_revision_to_output on one port value.
StampPort(pv, uuid) ==
    IF pv.meta = "notadict" THEN [exc |-> "TypeError", pv |-> pv]
    ELSE IF pv.meta = "revstr" THEN [exc |-> "", pv |-> pv]
    ELSE IF pv.meta = "str" THEN [exc |-> "AttributeError", pv |-> pv]
    ELSE IF pv.rev # NoRev THEN [exc |-> "", pv |-> pv]
    ELSE IF pv.meta = "hash_skip" THEN [exc |-> "", pv |-> [pv EXCEPT !.rev = uuid]]
    ELSE [exc |-> "", pv |-> [pv EXCEPT !.meta = "dict", !.rev = Sha256OfPayload(pv)]]

\* _apply_revision_to_output on the ports named by keys, in that order (the
\* order of output.items()): the first port that fails raises, and the ports
\* before it stay stamped in the dict, which is modified in place.  uuid is the
\* next value of uuid4(); every value drawn is a new one.
RECURSIVE _apply_revision_to_output(_, _, _)
_apply_revision_to_output(output, keys, uuid) ==
    IF keys = <<>> THEN [exc |-> "", out |-> output]
    ELSE IF StampPort(output[keys[1]], uuid).exc # ""
    THEN [exc |-> StampPort(output[keys[1]], uuid).exc, out |-> output]
    ELSE _apply_revision_to_output(
             [output EXCEPT ![keys[1]] = StampPort(output[keys[1]], uuid).pv], Tail(keys),
             IF output[keys[1]].meta = "hash_skip" /\ output[keys[1]].rev = NoRev
             THEN [uuid EXCEPT !.n = @ + 1] ELSE uuid)

\* ------------------------------------------------------------- node kernel
\* A node object: _status, _error, _my_node_calls.
NewNode == [status |-> "ready", error |-> "", calls |-> 0]

Terminal == {"done", "pause", "limit", "fatal"}

\* BaseNode.execute, entry: count the call, then status executing.
execute_entry(node) == [node EXCEPT !.calls = @ + 1, !.status = "executing"]

\* BaseNode.execute, the pre-limit hook fired.
execute_prelimit(node) ==
    [node |-> [node EXCEPT !.status = "limit"], result |-> EmptyDict, order |-> <<>>, raised |-> ""]

\* _apply_revision_to_output modifies the dict that run() returned in place:
\* the dict keeps its keys in the order they had.
stamped_in_place(st, order) == [exc |-> st.exc, out |-> st.out, order |-> order]

\* A BaseNode.execute that returns {} when the post-limit hook fires.
execute_stamped_post_returns_empty(node, st, post) ==
    IF st.exc \in {"TypeError", "ValueError"}
    THEN [node |-> [node EXCEPT !.status = "fatal", !.error = st.exc],
          result |-> EmptyDict, order |-> <<>>, raised |-> ""]
    ELSE IF st.exc # ""
    THEN [node |-> node, result |-> EmptyDict, order |-> <<>>, raised |-> st.exc]
    ELSE IF post
    THEN [node |-> [node EXCEPT !.status = "limit"], result |-> EmptyDict, order |-> <<>>, raised |-> ""]
    ELSE [node |-> [node EXCEPT !.status = IF node.status = "executing" THEN "done" ELSE @],
          result |-> st.out, order |-> st.order, raised |-> ""]

\* BaseNode.execute after revision stamping (st: what the stamping did): a
\* TypeError or ValueError is fatal, any other exception leaves execute(); then
\* the post-limit hook, then done.
execute_stamped(node, st, post) ==
    IF st.exc \in {"TypeError", "ValueError"}
    THEN [node |-> [node EXCEPT !.status = "fatal", !.error = st.exc],
          result |-> EmptyDict, order |-> <<>>, raised |-> ""]
    ELSE IF st.exc # ""
    THEN [node |-> node, result |-> EmptyDict, order |-> <<>>, raised |-> st.exc]
    ELSE IF post
    THEN [node |-> [node EXCEPT !.status = "limit"], result |-> st.out, order |-> st.order, raised |-> ""]
    ELSE [node |-> [node EXCEPT !.status = IF node.status = "executing" THEN "done" ELSE @],
          result |-> st.out, order |-> st.order, raised |-> ""]

\* BaseNode.execute from the call of run() on: signal translation, type check,
\* revision stamping, post-limit hook, done.  raised names an exception that
\* leaves execute(); order lists the keys of the dict returned, in its order.
execute_outcome(node, run, post, uuid) ==
    IF run.kind = "PauseSignal"
    THEN [node |-> [node EXCEPT !.status = "pause"], result |-> EmptyDict, order |-> <<>>, raised |-> ""]
    ELSE IF run.kind = "LimitSignal"
    THEN [node |-> [node EXCEPT !.status = "limit"], result |-> EmptyDict, order |-> <<>>, raised |-> ""]
    ELSE IF run.kind = "Exception"
    THEN [node |-> [node EXCEPT !.status = "fatal", !.error = run.exc],
          result |-> EmptyDict, order |-> <<>>, raised |-> ""]
    ELSE IF ~run.isdict
    THEN [node |-> [node EXCEPT !.status = "fatal", !.error = "TypeError"],
          result |-> EmptyDict, order |-> <<>>, raised |-> ""]
    ELSE execute_stamped(node, stamped_in_place(_apply_revision_to_output(run.ports, run.order,
                                                                       uuid), run.order),
                         post)

\* A BaseNode.execute that counts the call only after the pre-limit check.
BaseNode_execute_counts_after_pre_limit(node, beh) ==
    IF beh.pre THEN execute_prelimit([node EXCEPT !.status = "executing"])
    ELSE execute_outcome(execute_entry(node), beh.run, beh.post, beh.uuid)

\* BaseNode.execute of a leaf, whole.
BaseNode_execute(node, beh) ==
    IF beh.pre THEN execute_prelimit(execute_entry(node))
    ELSE execute_outcome(execute_entry(node), beh.run, beh.post, beh.uuid)

\* BaseNode.read_error: the cause while fatal, else None ("").
BaseNode_read_error(node) == IF node.status = "fatal" THEN node.error ELSE ""

\* BaseNode.read_node_calls.
BaseNode_read_node_calls(node) == node.calls

\* ------------------------------------------------------------ configuration
\* A reference string "${src.key}", or a literal binding.
Ref(src, key) == [src |-> src, key |-> key]

Literal == Ref("literal", "")

\* graph.nodes (ids in declared order), graph.final, each node's input
\* bindings, and of each node type's node.yaml: whether the file exists and
\* the input ports it declares required.
Graph(nodes, final, bind, req) ==
    [nodes |-> nodes, final |-> final, bindings |-> bind, required |-> req,
     has_schema |-> [n \in {"a", "b"} |-> TRUE]]

\* Graph g where the type of node b has no node.yaml.
WithoutSchemaB(g) == [g EXCEPT !.has_schema["b"] = FALSE, !.required["b"] = {}]

NoBindings == [n \in Ids |-> EmptyDict]

BindB(ref) == [n \in Ids |-> IF n = "b" THEN [p \in {"x"} |-> ref] ELSE EmptyDict]

ReqB(ports) == [n \in Ids |-> IF n = "b" THEN ports ELSE {}]

\* The pipeline of one node b whose required input x is bound to ${c.out},
\* where no node c is declared.
UnresolvedGraph == Graph(<<"b">>, "b", BindB(Ref("c", "out")), ReqB({"x"}))

\* The pipeline of one node b without node.yaml whose input x is bound to
\* ${c.out}, and the chain a, b with b without node.yaml bound to ${a.out}.
SchemalessGraphs ==
    {WithoutSchemaB(Graph(<<"b">>, "b", BindB(Ref("c", "out")), ReqB({}))),
     WithoutSchemaB(Graph(<<"b", "a">>, "b", BindB(Ref("a", "out")), ReqB({})))}

\* The pipeline b, a where the required input x of b is bound to a reference
\* into the params: ${params.limit}, or ${params.max_total_node_calls}.
ParamsGraphs ==
    {Graph(<<"b", "a">>, "b", BindB(Ref("params", key)), ReqB({"x"})) :
        key \in {"limit", "max_total_node_calls"}}

Graphs ==
    {Graph(<<>>, "a", NoBindings, ReqB({})), UnresolvedGraph}
    \cup SchemalessGraphs \cup ParamsGraphs
    \cup {Graph(<<"a">>, f, NoBindings, ReqB({})) : f \in Ids}
    \cup {Graph(ns, f, NoBindings, ReqB({})) : ns \in {<<"a", "b">>, <<"b", "a">>}, f \in Ids}
    \cup {Graph(ns, f, bd, ReqB(rq)) :
            ns \in {<<"a", "b">>, <<"b", "a">>}, f \in Ids,
            bd \in {BindB(Ref("a", "out")), BindB(Ref("c", "out"))},
            rq \in {{}, {"x"}}}

\* The graphs a LoopNode is built on.
LoopGraphs ==
    {Graph(<<"a">>, "a", NoBindings, ReqB({}))}
    \cup {Graph(ns, "b", BindB(Ref("a", "out")), ReqB({"x"})) :
            ns \in {<<"a", "b">>, <<"b", "a">>}}

\* The graphs of a PipelineNode that is node p of another PipelineNode.
NestedGraphs ==
    {Graph(<<"a">>, "a", NoBindings, ReqB({})), Graph(<<"a", "b">>, "a", NoBindings, ReqB({}))}

\* The loop condition {path, <operator>: ref}; path as its list of keys.
Condition(path, op, ref) == [path |-> path, op |-> op, ref |-> ref, ref_ty |-> "int"]

\* A string is written as a number that tells it from every other string: the
\* strings "x" and "revision", and the revision strings (what a caller wrote,
\* the digest of a payload, a uuid).
Text(s) == IF s = "x" THEN 0 ELSE 1

RevisionText(rev) ==
    IF rev.kind = "caller" THEN 2
    ELSE IF rev.kind = "sha256" THEN 10 + 2 * (rev.n + 1)
    ELSE 11 + 2 * rev.n

\* A condition whose reference is the string ref.
StrCondition(path, op, ref) == [path |-> path, op |-> op, ref |-> ref, ref_ty |-> "str"]

Conditions ==
    {Condition(<<"out", "v">>, "greater_than", 1), Condition(<<"out", "w">>, "equals", 1)}

\* params of an execute() call: the dict {} when every field is None, else the
\* dict {limit: {...}} whose dict under "limit" holds the fields that are not
\* None.
Params(c, i, m) == [max_total_node_calls |-> c, max_idle_sec |-> i, max_iterations |-> m]

PipelineParamChoices ==
    {Params(None, None, None), Params(2, None, None), Params(4, None, None),
     Params(None, 1, None)}

LoopParamChoices ==
    {Params(None, None, None), Params(None, None, 0), Params(None, None, 2),
     Params(4, None, 2)}

\* params of an execute() call on the PipelineNode around node p.
OuterParamChoices == {Params(None, None, None), Params(4, None, None), Params(None, 1, None)}

InputChoices == {EmptyDict}

\* -------------------------------------------------------------------- state
VARIABLES
    rootKind,          \* "pipeline": the root is a PipelineNode; "loop": a LoopNode;
                       \*   "nested": a PipelineNode whose one node p is the PipelineNode
    graph,             \* pipeline_data["graph"] and the node types' schemas
    condition,         \* LoopNode.condition
    nodes,             \* the leaf instances: id -> node object
    pipeline,          \* the PipelineNode's own node object
    loop,              \* the LoopNode's own node object
    runner,            \* PipelineNode._runner is not None (instances are built)
    latest_outputs,    \* the LatestOutputStore: id -> output dict
    output_keys,       \* the key order of each dict in the LatestOutputStore
    idle_elapsed,      \* time.monotonic() - _idle_since, None when _idle_since is None
    pipeline_inputs,   \* Runner.pipeline_inputs
    pipeline_params,   \* Runner.pipeline_params
    l_pipeline,        \* LoopNode._pipeline is not None
    l_args,            \* LoopNode.run: its arguments inputs and params
    outer,             \* the PipelineNode around node p: its node object, _runner is not
                       \*   None, its LatestOutputStore, its idle clock, its pipeline_params,
                       \*   whether p.execute() is in progress, and (history) the execute()
                       \*   invocations on it
    iteration,         \* LoopNode.run: iteration
    pc,                \* "idle": no call in progress; "run": inside PipelineNode.run's loop
    h_exec,            \* history: execute() invocations per leaf
    h_p_exec,          \* history: execute() invocations on the PipelineNode
    h_l_exec,          \* history: execute() invocations on the LoopNode
    h_body_exec,       \* history: pipeline.execute() calls of the current LoopNode.execute()
    h_entry,           \* history: each object's status right after entry of its latest execute()
    h_raised,          \* history: the exception that left each leaf's latest execute(), or ""
    h_result,          \* history: the dict each leaf's latest execute() returned
    h_inputs,          \* history: the inputs dict each leaf's latest execute() was given
    h_beh,             \* history: what each leaf's hooks and run() did in its latest execute()
    h_cause,           \* history: how each leaf's latest execute() went ("pre": the pre-limit
                       \*   hook fired; else what run() did)
    h_ok,              \* history: every execute() of the leaf so far ended done with port "out"
    last,              \* history: the last operation and what it returned
    h_round,           \* history: parity of the rounds taken by the run() loop in progress
    fn,                \* the pure function applied last ("none": none so far)
    fn_in,             \* its arguments
    fn_out             \* its result

\* The variables of the kernel, and those of the pure functions.
kvars == <<rootKind, graph, condition, nodes, pipeline, loop, runner, latest_outputs,
           output_keys, idle_elapsed, pipeline_inputs, pipeline_params, l_pipeline, l_args, outer, iteration,
           pc, h_exec, h_p_exec, h_l_exec, h_body_exec, h_entry, h_raised, h_result, h_inputs, h_beh, h_cause, h_ok,
           last, h_round>>

fvars == <<fn, fn_in, fn_out>>

vars == <<kvars, fvars>>

nodes_list == graph.nodes

final_id == graph.final

\* The mutable program state (and its history) as one record.
Cur ==
    [nodes |-> nodes, pipeline |-> pipeline, loop |-> loop, runner |-> runner,
     latest_outputs |-> latest_outputs, output_keys |-> output_keys,
     idle_elapsed |-> idle_elapsed,
     pipeline_inputs |-> pipeline_inputs, pipeline_params |-> pipeline_params,
     l_pipeline |-> l_pipeline, l_args |-> l_args, outer |-> outer, iteration |-> iteration,
     h_exec |-> h_exec, h_p_exec |-> h_p_exec, h_l_exec |-> h_l_exec,
     h_body_exec |-> h_body_exec,
     h_entry |-> h_entry, h_raised |-> h_raised, h_result |-> h_result,
     h_inputs |-> h_inputs, h_beh |-> h_beh,
     h_cause |-> h_cause, h_ok |-> h_ok]

Apply(s) ==
    /\ nodes' = s.nodes
    /\ pipeline' = s.pipeline
    /\ loop' = s.loop
    /\ runner' = s.runner
    /\ latest_outputs' = s.latest_outputs
    /\ output_keys' = s.output_keys
    /\ idle_elapsed' = s.idle_elapsed
    /\ pipeline_inputs' = s.pipeline_inputs
    /\ pipeline_params' = s.pipeline_params
    /\ l_pipeline' = s.l_pipeline
    /\ l_args' = s.l_args
    /\ outer' = s.outer
    /\ iteration' = s.iteration
    /\ h_exec' = s.h_exec
    /\ h_p_exec' = s.h_p_exec
    /\ h_l_exec' = s.h_l_exec
    /\ h_body_exec' = s.h_body_exec
    /\ h_entry' = s.h_entry
    /\ h_raised' = s.h_raised
    /\ h_result' = s.h_result
    /\ h_inputs' = s.h_inputs
    /\ h_beh' = s.h_beh
    /\ h_cause' = s.h_cause
    /\ h_ok' = s.h_ok

\* ------------------------------------------------------------------- runner
\* build_runner: one instance per declared node.
node_instances(s) == IF s.runner THEN {nodes_list[i] : i \in DOMAIN nodes_list} ELSE {}

\* The arguments of loader.resolve_inputs next to the bindings.
Sources(outputs, p_inputs, p_params) ==
    [latest_outputs |-> outputs, pipeline_inputs |-> p_inputs, pipeline_params |-> p_params]

\* The dict under "limit" of the params as a bound value: a dict without _meta.
LimitValue == PortValue(0, "absent", NoRev)

\* Runner.pipeline_params as the dict loader.resolve_inputs looks keys up in:
\* {} when no limit is given, else its one key is "limit".
pipeline_params_dict(params) ==
    IF params = Params(None, None, None) THEN EmptyDict ELSE [k \in {"limit"} |-> LimitValue]

\* loader.resolve_inputs on one binding.
resolve_ref(s, ref) ==
    IF ref.src = "literal" THEN LiteralValue
    ELSE IF ref.src = "inputs"
    THEN IF ref.key \in DOMAIN s.pipeline_inputs THEN s.pipeline_inputs[ref.key] ELSE UNRESOLVED
    ELSE IF ref.src = "params"
    THEN IF ref.key \in DOMAIN s.pipeline_params THEN s.pipeline_params[ref.key] ELSE UNRESOLVED
    ELSE IF ref.src \in DOMAIN s.latest_outputs
    THEN IF ref.key \in DOMAIN s.latest_outputs[ref.src]
         THEN s.latest_outputs[ref.src][ref.key] ELSE UNRESOLVED
    ELSE UNRESOLVED

\* loader.resolve_inputs on the bindings of one node definition.
resolve_bindings(s, bindings) == [port \in DOMAIN bindings |-> resolve_ref(s, bindings[port])]

\* Runner.resolve_inputs.
resolve_inputs(s, nid) ==
    resolve_bindings(Sources(s.latest_outputs, s.pipeline_inputs,
                             pipeline_params_dict(s.pipeline_params)),
                     graph.bindings[nid])

\* loader.get_required_input_ports for the type of node nid: the ports of the
\* schema that are required; a missing node.yaml is the empty schema.
get_required_input_ports(nid) ==
    IF graph.has_schema[nid] THEN graph.required[nid] ELSE {}

\* Runner.is_executable, the loop over the required ports.
required_resolved(required, resolved) ==
    \A port \in required : port \in DOMAIN resolved /\ resolved[port] # UNRESOLVED

\* A Runner.is_executable that also admits a node whose status is limit.
is_executable_admits_limit(s, nid) ==
    /\ nid \in node_instances(s)
    /\ s.nodes[nid].status \in {"ready", "done", "limit"}
    /\ required_resolved(get_required_input_ports(nid), resolve_inputs(s, nid))

\* A Runner.is_executable that admits a node only while it is ready.
is_executable_ready_only(s, nid) ==
    /\ nid \in node_instances(s)
    /\ s.nodes[nid].status = "ready"
    /\ required_resolved(get_required_input_ports(nid), resolve_inputs(s, nid))

\* Runner.is_executable.
is_executable(s, nid) ==
    /\ nid \in node_instances(s)
    /\ s.nodes[nid].status \in {"ready", "done"}
    /\ required_resolved(get_required_input_ports(nid), resolve_inputs(s, nid))

\* node.execute(...) on leaf nid has been called and did r.
leaf_called(s, nid, beh, r) ==
    [s |-> [s EXCEPT !.nodes[nid] = r.node,
                     !.h_exec[nid] = @ + 1,
                     !.h_entry[nid] = execute_entry(s.nodes[nid]).status,
                     !.h_raised[nid] = r.raised,
                     !.h_result[nid] = r.result,
                     !.h_beh[nid] = beh,
                     !.h_cause[nid] = IF beh.pre THEN "pre" ELSE beh.run.kind,
                     !.h_ok[nid] = @ /\ r.node.status = "done" /\ "out" \in DOMAIN r.result],
     out |-> r.result, order |-> r.order, raised |-> r.raised]

\* A Runner.execute_node that passes the resolved bindings as they are.
keep_unresolved(resolved) == resolved

\* Runner.execute_node: the resolved bindings without the UNRESOLVED ones.
omit_unresolved(resolved) ==
    [port \in {p \in DOMAIN resolved : resolved[p] # UNRESOLVED} |-> resolved[port]]

\* Runner.execute_node: node.execute(inputs, params).
execute_node(s, nid, beh) ==
    leaf_called([s EXCEPT !.h_inputs[nid] = omit_unresolved(resolve_inputs(s, nid))],
                nid, beh, BaseNode_execute(s.nodes[nid], beh))

\* A Runner.save_output that stores the empty dict as well.
save_output_also_empty(latest, nid, output) == Put(latest, nid, output)

\* Runner.save_output.
save_output(latest, nid, output) ==
    IF output # EmptyDict THEN Put(latest, nid, output) ELSE latest

\* Runner.save_output, for the key order of the dict that is stored.
save_output_keys(keys, nid, output, order) ==
    IF output # EmptyDict THEN Put(keys, nid, order) ELSE keys

\* Runner.save_output(nid, r.out) after leaf nid's execute() did r.
output_saved(r, nid) ==
    [r.s EXCEPT !.latest_outputs = save_output(@, nid, r.out),
                !.output_keys = save_output_keys(@, nid, r.out, r.order)]

\* A scan that takes the executable node listed last.
last_of(idx) ==
    IF idx = {} THEN "" ELSE nodes_list[CHOOSE m \in idx : \A o \in idx : m >= o]

\* The first executable node in graph.nodes order, as Runner.step scans ("": none).
first_of(idx) == IF idx = {} THEN "" ELSE nodes_list[Min(idx)]

first_executable(s) == first_of({i \in DOMAIN nodes_list : is_executable(s, nodes_list[i])})

\* Runner.step after execute_node: save the output, return True.  raised: an
\* exception of the node's execute() leaves step().
step_executed(nid, r) ==
    IF r.raised # ""
    THEN [s |-> r.s, progressed |-> FALSE, raised |-> r.raised]
    ELSE [s |-> output_saved(r, nid),
          progressed |-> TRUE, raised |-> ""]

step_node(s, nid, beh) ==
    IF nid = "" THEN [s |-> s, progressed |-> FALSE, raised |-> ""]
    ELSE step_executed(nid, execute_node(s, nid, beh))

\* Runner.step.
step(s, beh) == step_node(s, first_executable(s), beh)

\* ------------------------------------------------------------ PipelineNode
\* A priority list in which pause comes before fatal and limit.
_STATUS_PRIORITY_pause_first == <<"pause", "fatal", "limit", "executing", "done", "ready">>

_STATUS_PRIORITY == <<"fatal", "limit", "pause", "executing", "done", "ready">>

first_status(hit) == IF hit = {} THEN "ready" ELSE _STATUS_PRIORITY[Min(hit)]

\* _aggregate_status on a list of statuses.
_aggregate_status(statuses) ==
    first_status({i \in DOMAIN _STATUS_PRIORITY :
                     \E j \in DOMAIN statuses : statuses[j] = _STATUS_PRIORITY[i]})

\* PipelineNode._aggregate_children_status.
_aggregate_children_status(s) ==
    IF node_instances(s) = {} THEN "ready"
    ELSE _aggregate_status([i \in DOMAIN nodes_list |-> s.nodes[nodes_list[i]].status])

RECURSIVE children_calls(_, _)
children_calls(s, i) ==
    IF i > Len(nodes_list) THEN 0
    ELSE BaseNode_read_node_calls(s.nodes[nodes_list[i]]) + children_calls(s, i + 1)

\* A PipelineNode.read_node_calls without the pipeline's own calls.
PipelineNode_read_node_calls_children_only(s) ==
    IF s.runner THEN children_calls(s, 1) ELSE 0

\* PipelineNode.read_node_calls.
PipelineNode_read_node_calls(s) ==
    s.pipeline.calls + (IF s.runner THEN children_calls(s, 1) ELSE 0)

\* PipelineNode.read_error, the loop over the children in the order of the
\* instance dict (graph.nodes order): each child's cause unless it is None.
RECURSIVE children_errors(_, _)
children_errors(s, i) ==
    IF i > Len(nodes_list) THEN <<>>
    ELSE (IF BaseNode_read_error(s.nodes[nodes_list[i]]) = "" THEN <<>>
          ELSE <<BaseNode_read_error(s.nodes[nodes_list[i]])>>)
         \o children_errors(s, i + 1)

\* A node's own cause as a structural read_error appends it.
own_error(node) ==
    IF node.status = "fatal" /\ node.error # "" THEN <<node.error>> ELSE <<>>

\* A PipelineNode.read_error that reports the pipeline's own cause only.
PipelineNode_read_error_own_only(s) == own_error(s.pipeline)

\* PipelineNode.read_error.
PipelineNode_read_error(s) ==
    (IF s.runner THEN children_errors(s, 1) ELSE <<>>) \o own_error(s.pipeline)

\* PipelineNode.get_final_output.
get_final_output(s) ==
    IF final_id \in DOMAIN s.latest_outputs THEN s.latest_outputs[final_id] ELSE EmptyDict

\* list(get_final_output().keys()): get_final_output returns the dict that is
\* in the store, whose keys are in the order run() put them in.
final_output_keys(s) ==
    IF final_id \in DOMAIN s.output_keys THEN s.output_keys[final_id] ELSE <<>>

\* A PipelineNode._init_context_if_needed that builds the runner, the instances
\* and the store anew on every execute().
_init_context_always(s, inputs, params) ==
    [s EXCEPT !.latest_outputs = EmptyDict, !.output_keys = EmptyDict, !.runner = TRUE,
              !.nodes = [n \in Ids |-> NewNode],
              !.pipeline_inputs = inputs, !.pipeline_params = params]

\* PipelineNode._init_context_if_needed.
_init_context_if_needed(s, inputs, params) ==
    IF s.runner
    THEN [s EXCEPT !.pipeline_inputs = inputs, !.pipeline_params = params]
    ELSE [s EXCEPT !.latest_outputs = EmptyDict, !.output_keys = EmptyDict, !.runner = TRUE,
                   !.pipeline_inputs = inputs, !.pipeline_params = params]

\* A PipelineNode._check_limit that fires only once read_node_calls() has
\* passed max_total_node_calls.
_check_limit_calls_exceeded(s, params) ==
    \/ /\ params.max_total_node_calls # None
       /\ PipelineNode_read_node_calls(s) > params.max_total_node_calls
    \/ /\ params.max_idle_sec # None
       /\ s.idle_elapsed # None
       /\ s.idle_elapsed >= params.max_idle_sec

\* A PipelineNode._check_limit that declares the idle limit as soon as the
\* graph is idle.
_check_limit_idle_at_once(s, params) ==
    \/ /\ params.max_total_node_calls # None
       /\ PipelineNode_read_node_calls(s) >= params.max_total_node_calls
    \/ /\ params.max_idle_sec # None
       /\ s.idle_elapsed # None

\* PipelineNode._check_limit.
_check_limit(s, params) ==
    \/ /\ params.max_total_node_calls # None
       /\ PipelineNode_read_node_calls(s) >= params.max_total_node_calls
    \/ /\ params.max_idle_sec # None
       /\ s.idle_elapsed # None
       /\ s.idle_elapsed >= params.max_idle_sec

\* A PipelineNode._should_terminate that does not look at the final node.
should_terminate_on_aggregate_only(s, agg) == agg \in {"fatal", "limit", "pause", "done"}

\* PipelineNode._should_terminate, given the aggregate of the children.
should_terminate_on(s, agg) ==
    IF agg \in {"fatal", "limit", "pause"} THEN TRUE
    ELSE IF agg # "done" THEN FALSE
    ELSE IF final_id \notin node_instances(s) THEN FALSE
    ELSE s.nodes[final_id].status = "done"

\* PipelineNode._should_terminate.
_should_terminate(s) == should_terminate_on(s, _aggregate_children_status(s))

\* PipelineNode._is_idle.
_is_idle(s) ==
    IF ~s.runner \/ node_instances(s) = {} THEN TRUE
    ELSE IF \E i \in DOMAIN nodes_list : is_executable(s, nodes_list[i]) THEN FALSE
    ELSE ~\E nid \in node_instances(s) : s.nodes[nid].status = "executing"

\* PipelineNode.run: the limit check at entry, then the idle clock is cleared.
run_enter_check(s, params) ==
    IF _check_limit(s, params)
    THEN [s |-> s, signal |-> "LimitSignal"]
    ELSE [s |-> [s EXCEPT !.idle_elapsed = None], signal |-> ""]

\* PipelineNode.run up to its loop.
run_enter(s, inputs, params) ==
    run_enter_check(_init_context_if_needed(s, inputs, params), params)

\* A loop of PipelineNode.run that returns the final output on a non-success
\* aggregate as well.
round_decide_final_on_non_success(s, idle, limit, agg, terminate, final) ==
    IF limit
    THEN [s |-> [s EXCEPT !.pipeline.status = "limit"], returned |-> TRUE,
          run |-> Returns(TRUE, final, final_output_keys(s))]
    ELSE IF agg \in {"fatal", "limit", "pause"} \/ terminate
    THEN [s |-> [s EXCEPT !.pipeline.status = agg], returned |-> TRUE,
          run |-> Returns(TRUE, final, final_output_keys(s))]
    ELSE [s |-> s, returned |-> FALSE, run |-> Returns(TRUE, EmptyDict, <<>>)]

\* A loop of PipelineNode.run that looks at the non-success aggregate before
\* the limit.
round_decide_non_success_first(s, idle, limit, agg, terminate, final) ==
    IF agg \in {"fatal", "limit", "pause"}
    THEN [s |-> [s EXCEPT !.pipeline.status = agg], returned |-> TRUE,
          run |-> Returns(TRUE, EmptyDict, <<>>)]
    ELSE IF limit
    THEN [s |-> [s EXCEPT !.pipeline.status = "limit"], returned |-> TRUE,
          run |-> Returns(TRUE, final, final_output_keys(s))]
    ELSE IF terminate
    THEN [s |-> [s EXCEPT !.pipeline.status = agg], returned |-> TRUE,
          run |-> Returns(TRUE, final, final_output_keys(s))]
    ELSE [s |-> s, returned |-> FALSE, run |-> Returns(TRUE, EmptyDict, <<>>)]

\* The loop of PipelineNode.run after the idle clock was updated: the limit
\* check of the idle branch, the limit check, the non-success statuses, the
\* successful termination.  returned: run() is left with the outcome run.
round_decide(s, idle, limit, agg, terminate, final) ==
    IF idle /\ limit
    THEN [s |-> [s EXCEPT !.pipeline.status = "limit"], returned |-> TRUE,
          run |-> Returns(TRUE, final, final_output_keys(s))]
    ELSE IF limit
    THEN [s |-> [s EXCEPT !.pipeline.status = "limit"], returned |-> TRUE,
          run |-> Returns(TRUE, final, final_output_keys(s))]
    ELSE IF agg \in {"fatal", "limit", "pause"}
    THEN [s |-> [s EXCEPT !.pipeline.status = agg], returned |-> TRUE,
          run |-> Returns(TRUE, EmptyDict, <<>>)]
    ELSE IF terminate
    THEN [s |-> [s EXCEPT !.pipeline.status = agg], returned |-> TRUE,
          run |-> Returns(TRUE, final, final_output_keys(s))]
    ELSE [s |-> s, returned |-> FALSE, run |-> Returns(TRUE, EmptyDict, <<>>)]

\* The loop of PipelineNode.run from its second limit check on.
round_checks(s, idle) ==
    round_decide(s, idle, _check_limit(s, s.pipeline_params), _aggregate_children_status(s),
                 _should_terminate(s), get_final_output(s))

\* time.monotonic() is read d later: an idle period that is being timed is d
\* longer (the model stops counting at MaxClock).
clock_advanced(elapsed, d) == IF elapsed = None THEN None ELSE Min({elapsed + d, MaxClock})

\* Time d passes on the monotonic clock, for every PipelineNode that is timing
\* an idle period.
time_passes(s, d) ==
    [s EXCEPT !.idle_elapsed = clock_advanced(@, d),
              !.outer.idle_elapsed = clock_advanced(@, d)]

\* The loop of PipelineNode.run from the limit check of its idle branch on;
\* the second limit check reads the clock d later.
round_idle_check(s, idle, d) ==
    IF idle /\ _check_limit(s, s.pipeline_params)
    THEN round_decide(s, idle, TRUE, _aggregate_children_status(s), _should_terminate(s),
                      get_final_output(s))
    ELSE round_checks(time_passes(s, d), idle)

\* The loop of PipelineNode.run: progress resets the idle clock, idleness
\* starts it (if it is not running), anything else resets it.  dt: the times
\* between the three readings of the clock in one round (the start of the idle
\* period, the limit check of the idle branch, the second limit check).
round_clock(s, progressed, idle, dt) ==
    round_idle_check(time_passes([s EXCEPT !.idle_elapsed =
                                     IF progressed THEN None
                                     ELSE IF idle THEN (IF @ = None THEN 0 ELSE @)
                                     ELSE None],
                                 dt[1]),
                     idle, dt[2])

round_idle(s, progressed, dt) == round_clock(s, progressed, ~progressed /\ _is_idle(s), dt)

\* The loop of PipelineNode.run after step(): an exception of step() passes
\* through; else the status becomes the aggregate of the children.
round_after_step(st, dt) ==
    IF st.raised # ""
    THEN [s |-> st.s, returned |-> TRUE, run |-> Raises("Exception", st.raised)]
    ELSE round_idle([st.s EXCEPT !.pipeline.status = _aggregate_children_status(st.s)],
                    st.progressed, dt)

\* One round of the loop of PipelineNode.run.
run_round(s, beh, dt) == round_after_step(step(s, beh), dt)

\* BaseNode.execute of the PipelineNode has translated run()'s outcome into o.
pipeline_left(s, o) ==
    [s |-> [s EXCEPT !.pipeline = o.node], returned |-> TRUE,
     result |-> o.result, order |-> o.order, raised |-> o.raised]

\* BaseNode.execute of the PipelineNode from run()'s outcome on.
pipeline_leave(s, run) ==
    pipeline_left(s, execute_outcome(s.pipeline, run, FALSE, DefaultUuid))

pipeline_entered(e) ==
    IF e.signal # "" THEN pipeline_leave(e.s, Raises(e.signal, ""))
    ELSE [s |-> e.s, returned |-> FALSE, result |-> EmptyDict, order |-> <<>>, raised |-> ""]

\* PipelineNode.execute from its entry to the loop of run().
PipelineNode_execute_enter(s, inputs, params) ==
    pipeline_entered(run_enter([s EXCEPT !.pipeline = execute_entry(@),
                                         !.h_p_exec = @ + 1,
                                         !.h_entry["$pipeline"] =
                                             execute_entry(s.pipeline).status],
                               inputs, params))

pipeline_round_end(r) ==
    IF r.returned THEN pipeline_leave(r.s, r.run)
    ELSE [s |-> r.s, returned |-> FALSE, result |-> EmptyDict, order |-> <<>>, raised |-> ""]

\* PipelineNode.execute: one round of run()'s loop, and the return if it ends.
PipelineNode_execute_round(s, beh, dt) == pipeline_round_end(run_round(s, beh, dt))

\* The resume_inputs of a resume() call.
resume_inputs == EmptyDict

\* PipelineNode.resume: the sweep over graph.nodes from position i on.  A paused
\* leaf is re-run by execute(resume_inputs, params); behs gives what each does.
RECURSIVE resume_sweep(_, _, _, _)
RECURSIVE resume_leaf(_, _, _, _, _)

resume_sweep(s, i, behs, resumed) ==
    IF i > Len(nodes_list) THEN [s |-> s, raised |-> "", resumed |-> resumed]
    ELSE IF nodes_list[i] \notin node_instances(s) \/ s.nodes[nodes_list[i]].status # "pause"
    THEN resume_sweep(s, i + 1, behs, resumed)
    ELSE resume_leaf(i, behs, resumed, nodes_list[i],
                     leaf_called([s EXCEPT !.h_inputs[nodes_list[i]] = resume_inputs],
                                 nodes_list[i], behs[nodes_list[i]],
                                 BaseNode_execute(s.nodes[nodes_list[i]], behs[nodes_list[i]])))

\* The sweep after node.execute(resume_inputs, params) on leaf nid did r: an
\* exception leaves resume(); else save the output, and stop if nid is fatal.
resume_leaf(i, behs, resumed, nid, r) ==
    IF r.raised # ""
    THEN [s |-> r.s, raised |-> r.raised, resumed |-> resumed]
    ELSE IF r.s.nodes[nid].status = "fatal"
    THEN [s |-> output_saved(r, nid),
          raised |-> "", resumed |-> Append(resumed, nid)]
    ELSE resume_sweep(output_saved(r, nid),
                      i + 1, behs, Append(resumed, nid))

\* A PipelineNode.resume without the check of the pipeline's status.
PipelineNode_resume_unchecked(s, behs) ==
    IF ~s.runner \/ node_instances(s) = {}
    THEN [s |-> s, raised |-> "", resumed |-> <<>>]
    ELSE resume_sweep(s, 1, behs, <<>>)

\* PipelineNode.resume.
PipelineNode_resume(s, behs) ==
    IF s.pipeline.status # "pause"
    THEN [s |-> s, raised |-> "InvalidStateError", resumed |-> <<>>]
    ELSE IF ~s.runner \/ node_instances(s) = {}
    THEN [s |-> s, raised |-> "", resumed |-> <<>>]
    ELSE resume_sweep(s, 1, behs, <<>>)

\* ---------------------------------------------------------------- LoopNode
\* A value found by _get_value_by_path: its Python type and, for an int or a
\* string, itself.
PyValue(ty, n) == [ty |-> ty, n |-> n]

\* The value under key k of the "_meta" dict of port value pv: "revision" is a
\* string, "hash_skip" is the bool True.
meta_value(pv, k) ==
    IF k = "revision" /\ pv.rev # NoRev THEN PyValue("str", RevisionText(pv.rev))
    ELSE IF k = "hash_skip" /\ pv.meta = "hash_skip" THEN PyValue("bool", 1)
    ELSE PyValue("NoneType", 0)

\* _get_value_by_path from a port value on: keys is the rest of the path.  The
\* port value is a dict with the key "v" (an int, or null) and, unless its
\* meta is "absent", the key "_meta" (a dict, or a string).
port_value_by_path(pv, keys) ==
    IF keys = <<>> THEN (IF pv.meta = "notadict" THEN PyValue("int", pv.v) ELSE PyValue("dict", 0))
    ELSE IF pv.meta = "notadict" THEN PyValue("NoneType", 0)
    ELSE IF keys[1] = "v"
    THEN IF Len(keys) > 1 \/ pv.v = None THEN PyValue("NoneType", 0) ELSE PyValue("int", pv.v)
    ELSE IF keys[1] # "_meta" \/ pv.meta = "absent" THEN PyValue("NoneType", 0)
    ELSE IF pv.meta \in {"str", "revstr"}
    THEN IF Len(keys) > 1 THEN PyValue("NoneType", 0)
         ELSE PyValue("str", Text(IF pv.meta = "str" THEN "x" ELSE "revision"))
    ELSE IF Len(keys) = 1 THEN PyValue("dict", 0)
    ELSE IF Len(keys) = 2 THEN meta_value(pv, keys[2])
    ELSE PyValue("NoneType", 0)

\* _get_value_by_path: "$" is the output; "$.port.key..." walks into a port value.
_get_value_by_path(output, path) ==
    IF path = <<>> THEN PyValue("dict", 0)
    ELSE IF path[1] \notin DOMAIN output THEN PyValue("NoneType", 0)
    ELSE port_value_by_path(output[path[1]], Tail(path))

\* Python's == between the value found and the reference: values of different
\* types differ, except that a bool compares as the integer it is; two ints
\* and two strings are compared.
py_equal(value, cond) ==
    /\ (IF value.ty = "bool" THEN "int" ELSE value.ty) = cond.ref_ty
    /\ value.n = cond.ref

\* _evaluate_condition_impl on the value found at the path.
evaluate_value(value, cond) ==
    IF value.ty = "NoneType" /\ cond.path # <<>>
    THEN [exc |-> "ValueError", holds |-> FALSE]
    ELSE IF cond.op = "equals" THEN [exc |-> "", holds |-> py_equal(value, cond)]
    ELSE IF cond.op = "not_equals" THEN [exc |-> "", holds |-> ~py_equal(value, cond)]
    ELSE IF value.ty \notin {"int", "bool"} \/ cond.ref_ty # "int"
    THEN [exc |-> "TypeError", holds |-> FALSE]
    ELSE IF cond.op = "less_than" THEN [exc |-> "", holds |-> value.n < cond.ref]
    ELSE [exc |-> "", holds |-> value.n > cond.ref]

\* _evaluate_condition_impl: exc names the exception raised, else holds is the result.
_evaluate_condition_impl(output, cond) ==
    evaluate_value(_get_value_by_path(output, cond.path), cond)

\* PipelineNode.get_latest_output as LoopNode.run uses it: a dict, or {} for None.
condition_input(s) ==
    IF s.runner /\ final_id \in DOMAIN s.latest_outputs
    THEN s.latest_outputs[final_id] ELSE EmptyDict

\* A LoopNode.read_node_calls without the loop's own calls.
LoopNode_read_node_calls_inner_only(s) ==
    IF s.l_pipeline THEN PipelineNode_read_node_calls(s) ELSE 0

\* LoopNode.read_node_calls.
LoopNode_read_node_calls(s) ==
    s.loop.calls + (IF s.l_pipeline THEN PipelineNode_read_node_calls(s) ELSE 0)

\* LoopNode.read_error.
LoopNode_read_error(s) ==
    (IF s.l_pipeline THEN PipelineNode_read_error(s) ELSE <<>>) \o own_error(s.loop)

\* BaseNode.execute of the LoopNode has translated run()'s outcome into o.
loop_left(s, o) ==
    [s |-> [s EXCEPT !.loop = o.node], returned |-> TRUE,
     result |-> o.result, order |-> o.order, raised |-> o.raised, again |-> FALSE]

\* BaseNode.execute of the LoopNode from run()'s outcome on.
loop_leave(s, run) == loop_left(s, execute_outcome(s.loop, run, FALSE, DefaultUuid))

\* run() of the LoopNode goes on (again: to the next round of its while loop,
\* else into the loop of the inner PipelineNode.run).
loop_goes_on(s, again) ==
    [s |-> s, returned |-> FALSE, result |-> EmptyDict, order |-> <<>>, raised |-> "", again |-> again]

\* A LoopNode.run that returns {} when the inner pipeline ends limit.
loop_verdict_limit_returns_empty(s, ev) ==
    IF s.loop.status \in {"fatal", "pause", "limit"}
    THEN [again |-> FALSE, s |-> s, run |-> Returns(TRUE, EmptyDict, <<>>)]
    ELSE IF s.loop.status # "done"
    THEN [again |-> TRUE, s |-> s, run |-> Returns(TRUE, EmptyDict, <<>>)]
    ELSE IF ev.exc # ""
    THEN [again |-> FALSE, s |-> [s EXCEPT !.loop.status = "fatal", !.loop.error = ev.exc],
          run |-> Returns(TRUE, EmptyDict, <<>>)]
    ELSE IF ev.holds
    THEN [again |-> FALSE, s |-> [s EXCEPT !.loop.status = "done"],
          run |-> Returns(TRUE, get_final_output(s), final_output_keys(s))]
    ELSE [again |-> TRUE, s |-> s, run |-> Returns(TRUE, EmptyDict, <<>>)]

\* A LoopNode.run that breaks when the condition does not hold.
loop_verdict_breaks_on_false(s, ev) ==
    IF s.loop.status \in {"fatal", "pause"}
    THEN [again |-> FALSE, s |-> s, run |-> Returns(TRUE, EmptyDict, <<>>)]
    ELSE IF s.loop.status = "limit"
    THEN [again |-> FALSE, s |-> s, run |-> Returns(TRUE, get_final_output(s), final_output_keys(s))]
    ELSE IF s.loop.status # "done"
    THEN [again |-> TRUE, s |-> s, run |-> Returns(TRUE, EmptyDict, <<>>)]
    ELSE IF ev.exc # ""
    THEN [again |-> FALSE, s |-> [s EXCEPT !.loop.status = "fatal", !.loop.error = ev.exc],
          run |-> Returns(TRUE, EmptyDict, <<>>)]
    ELSE IF ~ev.holds
    THEN [again |-> FALSE, s |-> [s EXCEPT !.loop.status = "done"],
          run |-> Returns(TRUE, get_final_output(s), final_output_keys(s))]
    ELSE [again |-> TRUE, s |-> s, run |-> Returns(TRUE, EmptyDict, <<>>)]

\* LoopNode.run after self._status = pipeline.read_status(), with ev the
\* evaluation of the condition: what run() returns, or that it loops again.
loop_verdict(s, ev) ==
    IF s.loop.status \in {"fatal", "pause"}
    THEN [again |-> FALSE, s |-> s, run |-> Returns(TRUE, EmptyDict, <<>>)]
    ELSE IF s.loop.status = "limit"
    THEN [again |-> FALSE, s |-> s, run |-> Returns(TRUE, get_final_output(s), final_output_keys(s))]
    ELSE IF s.loop.status # "done"
    THEN [again |-> TRUE, s |-> s, run |-> Returns(TRUE, EmptyDict, <<>>)]
    ELSE IF ev.exc # ""
    THEN [again |-> FALSE, s |-> [s EXCEPT !.loop.status = "fatal", !.loop.error = ev.exc],
          run |-> Returns(TRUE, EmptyDict, <<>>)]
    ELSE IF ev.holds
    THEN [again |-> FALSE, s |-> [s EXCEPT !.loop.status = "done"],
          run |-> Returns(TRUE, get_final_output(s), final_output_keys(s))]
    ELSE [again |-> TRUE, s |-> s, run |-> Returns(TRUE, EmptyDict, <<>>)]

loop_close(v) == IF v.again THEN loop_goes_on(v.s, TRUE) ELSE loop_leave(v.s, v.run)

\* LoopNode.run: from the return of pipeline.execute() to the end of the round.
loop_after_pipeline(s) ==
    loop_close(loop_verdict([s EXCEPT !.loop.status = s.pipeline.status],
                            _evaluate_condition_impl(condition_input(s), condition)))

\* pipeline.execute() was entered: it is in the loop of its run(), or it has
\* returned at once (its limit check at entry raised LimitSignal, so that its
\* status is limit and the LoopNode returns).
loop_entered(pe) ==
    IF pe.returned THEN loop_after_pipeline(pe.s) ELSE loop_goes_on(pe.s, FALSE)

\* A LoopNode.run that allows one iteration more than max_iterations.
loop_head_one_more(s) ==
    IF s.l_args.params.max_iterations # None
       /\ s.iteration > s.l_args.params.max_iterations + 1
    THEN loop_leave(s, Raises("LimitSignal", ""))
    ELSE loop_entered(PipelineNode_execute_enter([s EXCEPT !.h_body_exec = @ + 1],
                                                 s.l_args.inputs, s.l_args.params))

\* LoopNode.run: the head of the while loop up to pipeline.execute(inputs, params).
loop_head(s) ==
    IF s.l_args.params.max_iterations # None /\ s.iteration > s.l_args.params.max_iterations
    THEN loop_leave(s, Raises("LimitSignal", ""))
    ELSE loop_entered(PipelineNode_execute_enter([s EXCEPT !.h_body_exec = @ + 1],
                                                 s.l_args.inputs, s.l_args.params))

loop_next_iteration(s) == loop_head([s EXCEPT !.iteration = @ + 1])

loop_continue(ap) == IF ap.again THEN loop_next_iteration(ap.s) ELSE ap

\* LoopNode.run: one round of the while loop after pipeline.execute() returned.
loop_round_end(s) == loop_continue(loop_after_pipeline(s))

\* LoopNode.execute from its entry to the loop of the inner PipelineNode.run.
LoopNode_execute_enter(s, inputs, params) ==
    loop_next_iteration([s EXCEPT !.loop = execute_entry(@),
                                  !.h_l_exec = @ + 1,
                                  !.h_body_exec = 0,
                                  !.h_entry["$loop"] = execute_entry(s.loop).status,
                                  !.l_pipeline = TRUE,
                                  !.iteration = 0,
                                  !.l_args = [inputs |-> inputs, params |-> params]])

loop_inner_round(r) == IF r.returned THEN loop_round_end(r.s) ELSE r

\* LoopNode.execute: one round of the inner run()'s loop and what follows it.
LoopNode_execute_round(s, beh, dt) ==
    loop_inner_round(PipelineNode_execute_round(s, beh, dt))

\* LoopNode.resume.
LoopNode_resume(s, behs) ==
    IF s.loop.status # "pause"
    THEN [s |-> s, raised |-> "InvalidStateError", resumed |-> <<>>]
    ELSE PipelineNode_resume([s EXCEPT !.l_pipeline = TRUE], behs)

\* ------------------------------------------- a PipelineNode around node p
\* The outer PipelineNode's graph declares one node, p, of a type whose class
\* is a PipelineNode (the inner pipeline); p is the final node, it has no input
\* bindings and no params.
ChildId == "p"

\* The outer PipelineNode after construction.
NewOuter ==
    [node |-> NewNode, runner |-> FALSE, latest_outputs |-> EmptyDict,
     output_keys |-> EmptyDict, idle_elapsed |-> None,
     params |-> Params(None, None, None), in_child |-> FALSE, h_exec |-> 0]

\* PipelineNode.read_node_calls of the outer pipeline.
Outer_read_node_calls(s) ==
    s.outer.node.calls + (IF s.outer.runner THEN PipelineNode_read_node_calls(s) ELSE 0)

\* PipelineNode._aggregate_children_status of the outer pipeline.
outer_aggregate(s) ==
    IF ~s.outer.runner THEN "ready" ELSE _aggregate_status(<<s.pipeline.status>>)

\* Runner.is_executable(p) of the outer pipeline: p has no required port.
outer_is_executable(s) == s.outer.runner /\ s.pipeline.status \in {"ready", "done"}

\* PipelineNode._is_idle of the outer pipeline.
outer_is_idle(s) ==
    IF ~s.outer.runner THEN TRUE
    ELSE IF outer_is_executable(s) THEN FALSE
    ELSE s.pipeline.status # "executing"

\* PipelineNode._check_limit of the outer pipeline.
outer_check_limit(s) ==
    \/ /\ s.outer.params.max_total_node_calls # None
       /\ Outer_read_node_calls(s) >= s.outer.params.max_total_node_calls
    \/ /\ s.outer.params.max_idle_sec # None
       /\ s.outer.idle_elapsed # None
       /\ s.outer.idle_elapsed >= s.outer.params.max_idle_sec

\* PipelineNode.get_final_output of the outer pipeline.
outer_final_output(s) ==
    IF ChildId \in DOMAIN s.outer.latest_outputs THEN s.outer.latest_outputs[ChildId]
    ELSE EmptyDict

\* list(get_final_output().keys()) of the outer pipeline.
outer_final_output_keys(s) ==
    IF ChildId \in DOMAIN s.outer.output_keys THEN s.outer.output_keys[ChildId] ELSE <<>>

\* BaseNode.execute of the outer pipeline has translated run()'s outcome into o.
outer_left(s, o) ==
    [s |-> [s EXCEPT !.outer.node = o.node, !.outer.in_child = FALSE], returned |-> TRUE,
     result |-> o.result, order |-> o.order, raised |-> o.raised]

\* BaseNode.execute of the outer pipeline from run()'s outcome on.
outer_leave(s, run) == outer_left(s, execute_outcome(s.outer.node, run, FALSE, DefaultUuid))

\* run() of the outer pipeline goes on; in_child: p.execute() is in progress.
outer_goes_on(s, in_child) ==
    [s |-> [s EXCEPT !.outer.in_child = in_child], returned |-> FALSE,
     result |-> EmptyDict, order |-> <<>>, raised |-> ""]

\* The loop of the outer PipelineNode.run from its limit check on.
outer_round_decide(s, limit, agg, final) ==
    IF limit
    THEN outer_leave([s EXCEPT !.outer.node.status = "limit"], Returns(TRUE, final, outer_final_output_keys(s)))
    ELSE IF agg \in {"fatal", "limit", "pause"}
    THEN outer_leave([s EXCEPT !.outer.node.status = agg], Returns(TRUE, EmptyDict, <<>>))
    ELSE IF agg = "done" /\ s.pipeline.status = "done"
    THEN outer_leave([s EXCEPT !.outer.node.status = agg], Returns(TRUE, final, outer_final_output_keys(s)))
    ELSE outer_goes_on(s, FALSE)

outer_round_checks(s) ==
    outer_round_decide(s, outer_check_limit(s), outer_aggregate(s), outer_final_output(s))

\* The loop of the outer PipelineNode.run from the limit check of its idle
\* branch on; the second limit check reads the clock d later.
outer_idle_check(s, idle, d) ==
    IF idle /\ outer_check_limit(s)
    THEN outer_round_decide(s, TRUE, outer_aggregate(s), outer_final_output(s))
    ELSE outer_round_checks(time_passes(s, d))

\* The loop of the outer PipelineNode.run after step() returned progressed: the
\* status becomes the aggregate, the idle clock is reset or started.
outer_after_step(s, progressed, dt) ==
    outer_idle_check(time_passes([s EXCEPT !.outer.node.status = outer_aggregate(s),
                                           !.outer.idle_elapsed =
                                               IF progressed THEN None
                                               ELSE IF outer_is_idle(s)
                                               THEN (IF @ = None THEN 0 ELSE @)
                                               ELSE None],
                                 dt[1]),
                     ~progressed /\ outer_is_idle(s), dt[2])

\* Runner.step of the outer pipeline after p.execute() ended as pe: an
\* exception passes through step() and run(); else the output is saved.
outer_child_returned(pe, dt) ==
    IF pe.raised # "" THEN outer_leave(pe.s, Raises("Exception", pe.raised))
    ELSE outer_after_step([pe.s EXCEPT !.outer.latest_outputs =
                                           save_output(@, ChildId, pe.result),
                                       !.outer.output_keys =
                                           save_output_keys(@, ChildId, pe.result, pe.order)],
                          TRUE, dt)

\* p.execute() was entered: it is in the loop of its run(), or it has returned.
outer_child_entered(pe, dt) ==
    IF pe.returned THEN outer_child_returned(pe, dt) ELSE outer_goes_on(pe.s, TRUE)

\* One round of the loop of the outer PipelineNode.run up to p.execute({}, {}),
\* or the whole round when p is not executable.
outer_step(s, dt) ==
    IF outer_is_executable(s)
    THEN outer_child_entered(PipelineNode_execute_enter(s, EmptyDict,
                                                        Params(None, None, None)), dt)
    ELSE outer_after_step(s, FALSE, dt)

\* PipelineNode.run of the outer pipeline up to its loop.
outer_run_enter(s) ==
    IF outer_check_limit(s) THEN outer_leave(s, Raises("LimitSignal", ""))
    ELSE outer_goes_on([s EXCEPT !.outer.idle_elapsed = None], FALSE)

\* PipelineNode.execute of the outer pipeline from its entry to the loop of run().
Outer_execute_enter(s, inputs, params) ==
    outer_run_enter([s EXCEPT !.outer.node = execute_entry(@),
                              !.outer.h_exec = @ + 1,
                              !.outer.latest_outputs = IF s.outer.runner THEN @ ELSE EmptyDict,
                              !.outer.output_keys = IF s.outer.runner THEN @ ELSE EmptyDict,
                              !.outer.runner = TRUE,
                              !.outer.params = params])

\* PipelineNode.execute of the outer pipeline: one round of the loop of its
\* run(), or of the loop of p's run() while p.execute() is in progress.
Outer_execute_round(s, beh, dt) ==
    IF s.outer.in_child THEN outer_child_entered(PipelineNode_execute_round(s, beh, dt), dt)
    ELSE outer_step(s, dt)

\* PipelineNode.resume of the outer pipeline after p.resume(resume_inputs) did
\* r: p's final output is saved if p reads done.
outer_child_resumed(r) ==
    IF r.raised # "" THEN [s |-> r.s, raised |-> r.raised, resumed |-> <<>>]
    ELSE IF r.s.pipeline.status = "done" /\ get_final_output(r.s) # EmptyDict
    THEN [s |-> [r.s EXCEPT !.outer.latest_outputs =
                                save_output(@, ChildId, get_final_output(r.s)),
                            !.outer.output_keys =
                                save_output_keys(@, ChildId, get_final_output(r.s),
                                                 final_output_keys(r.s))],
          raised |-> "", resumed |-> <<ChildId>>]
    ELSE [s |-> r.s, raised |-> "", resumed |-> <<ChildId>>]

\* PipelineNode.resume of the outer pipeline.
Outer_resume(s, behs) ==
    IF s.outer.node.status # "pause"
    THEN [s |-> s, raised |-> "InvalidStateError", resumed |-> <<>>]
    ELSE IF ~s.outer.runner \/ s.pipeline.status # "pause"
    THEN [s |-> s, raised |-> "", resumed |-> <<>>]
    ELSE outer_child_resumed(PipelineNode_resume(s, behs))

\* ------------------------------------------------------------------ the root
root_status(s) ==
    IF rootKind = "loop" THEN s.loop.status
    ELSE IF rootKind = "nested" THEN s.outer.node.status
    ELSE s.pipeline.status

root_read_node_calls(s) ==
    IF rootKind = "loop" THEN LoopNode_read_node_calls(s)
    ELSE IF rootKind = "nested" THEN Outer_read_node_calls(s)
    ELSE PipelineNode_read_node_calls(s)

root_execute_enter(s, inputs, params) ==
    IF rootKind = "loop" THEN LoopNode_execute_enter(s, inputs, params)
    ELSE IF rootKind = "nested" THEN Outer_execute_enter(s, inputs, params)
    ELSE PipelineNode_execute_enter(s, inputs, params)

root_execute_round(s, beh, dt) ==
    IF rootKind = "loop" THEN LoopNode_execute_round(s, beh, dt)
    ELSE IF rootKind = "nested" THEN Outer_execute_round(s, beh, dt)
    ELSE PipelineNode_execute_round(s, beh, dt)

root_resume(s, behs) ==
    IF rootKind = "loop" THEN LoopNode_resume(s, behs)
    ELSE IF rootKind = "nested" THEN Outer_resume(s, behs)
    ELSE PipelineNode_resume(s, behs)

\* ------------------------------------------------------------------ actions
Objects == Ids \cup {"$pipeline", "$loop"}

\* The last operation: op; for a round, the nodes executable when step() scanned
\* (scan) and step()'s return value (progressed); the leaves whose execute() it
\* invoked (ran); whether the root call returned, with what (result, and order:
\* its keys in their order), or what it raised;
\* the root's status before the operation.
Last(op, scan, progressed, ran, returned, result, order, raised, before) ==
    [op |-> op, scan |-> scan, progressed |-> progressed, ran |-> ran,
     returned |-> returned, result |-> result, order |-> order, raised |-> raised,
     before |-> before]

KernelInit ==
    /\ rootKind \in {"pipeline", "loop", "nested"}
    /\ graph \in IF rootKind = "loop" THEN LoopGraphs
                ELSE IF rootKind = "nested" THEN NestedGraphs ELSE Graphs
    /\ condition \in IF rootKind = "loop" THEN Conditions
                     ELSE {Condition(<<>>, "equals", 0)}
    /\ nodes = [n \in Ids |-> NewNode]
    /\ pipeline = NewNode
    /\ loop = NewNode
    /\ runner = FALSE
    /\ latest_outputs = EmptyDict
    /\ output_keys = EmptyDict
    /\ idle_elapsed = None
    /\ pipeline_inputs = EmptyDict
    /\ pipeline_params = Params(None, None, None)
    /\ l_pipeline = FALSE
    /\ l_args = [inputs |-> EmptyDict, params |-> Params(None, None, None)]
    /\ outer = NewOuter
    /\ iteration = 0
    /\ pc = "idle"
    /\ h_exec = [n \in Ids |-> 0]
    /\ h_p_exec = 0
    /\ h_l_exec = 0
    /\ h_body_exec = 0
    /\ h_entry = [o \in Objects |-> ""]
    /\ h_raised = [n \in Ids |-> ""]
    /\ h_result = [n \in Ids |-> EmptyDict]
    /\ h_inputs = [n \in Ids |-> EmptyDict]
    /\ h_beh = [n \in Ids |-> NoBehaviour]
    /\ h_cause = [n \in Ids |-> ""]
    /\ h_ok = [n \in Ids |-> TRUE]
    /\ last = Last("init", {}, FALSE, {}, FALSE, EmptyDict, <<>>, "", "ready")
    /\ h_round = 0

\* No pure function has been applied.
FnNone ==
    /\ fn = "none"
    /\ fn_in = <<>>
    /\ fn_out = <<>>

Init == KernelInit /\ FnNone

\* The nodes whose execute() an operation invoked.
Ran(s, t) == {n \in Ids : t.h_exec[n] # s.h_exec[n]}

\* The root call did r: the new state, and whether the call is still running.
Done(r, op, scan, progressed) ==
    /\ Apply(r.s)
    /\ pc' = IF op # "resume" /\ ~r.returned THEN "run" ELSE "idle"
    /\ last' = Last(op, scan, progressed, Ran(Cur, r.s), op = "resume" \/ r.returned,
                    IF op = "resume" THEN EmptyDict ELSE r.result,
                    IF op = "resume" THEN <<>> ELSE r.order, r.raised,
                    root_status(Cur))
    /\ h_round' = IF op \in {"round", "outer"} /\ ~r.returned THEN 1 - h_round ELSE 0
    /\ UNCHANGED <<rootKind, graph, condition>>
    /\ UNCHANGED fvars

\* root.execute(inputs, params) is called: up to the first round of run()'s loop.
Execute(inputs, params) ==
    /\ pc = "idle"
    /\ root_read_node_calls(Cur) < MaxCalls
    /\ Done(root_execute_enter(Cur, inputs, params), "execute", {}, FALSE)

\* The round to take is one of the loop that steps the leaves ("round"), not
\* one of the loop of the PipelineNode around p ("outer").
in_step == rootKind = "nested" => outer.in_child

\* The times that pass between the readings of the clock in the round to
\* take.  A round whose step() runs a node reads no clock that is timing an
\* idle period, so that the times make no difference to it.
ClockReads ==
    IF (IF in_step THEN first_executable(Cur) = "" ELSE ~outer_is_executable(Cur))
    THEN (0..MaxClock) \X (0..MaxClock)
    ELSE {<<0, 0>>}

\* What the leaf that the round to take executes may do.  A round whose step()
\* runs no leaf asks no leaf for its behaviour.
RoundBehaviours ==
    IF in_step /\ first_executable(Cur) # "" THEN Behaviours
    ELSE {[pre |-> TRUE, run |-> Returns(TRUE, EmptyDict, <<>>), post |-> FALSE,
           uuid |-> DefaultUuid]}

\* One round of the loop of PipelineNode.run: a step(), the status update, the
\* idle clock, the limit checks, the termination checks; when the inner
\* pipeline of a LoopNode returns, the rest of the LoopNode's round as well.
Round(beh, dt) ==
    /\ pc = "run"
    /\ root_read_node_calls(Cur) < MaxCalls
    /\ Done(root_execute_round(Cur, beh, dt), IF in_step THEN "round" ELSE "outer",
            IF in_step THEN {n \in Ids : is_executable(Cur, n)} ELSE {},
            in_step /\ first_executable(Cur) # "" /\ h_raised'[first_executable(Cur)] = "")

\* root.resume(resume_inputs) is called.
Resume(behs) ==
    /\ pc = "idle"
    /\ root_read_node_calls(Cur) < MaxCalls
    /\ Done(root_resume(Cur, behs), "resume", {}, FALSE)

\* The monotonic clock advances between two rounds or two calls, while an
\* idle period is being timed.
Tick ==
    /\ \/ (idle_elapsed # None /\ idle_elapsed < MaxClock)
       \/ (outer.idle_elapsed # None /\ outer.idle_elapsed < MaxClock)
    /\ idle_elapsed' = clock_advanced(idle_elapsed, 1)
    /\ outer' = [outer EXCEPT !.idle_elapsed = clock_advanced(@, 1)]
    /\ UNCHANGED <<rootKind, graph, condition, nodes, pipeline, loop, runner, latest_outputs,
                   output_keys, pipeline_inputs, pipeline_params, l_pipeline, l_args, iteration, pc,
                   h_exec, h_p_exec, h_l_exec, h_body_exec, h_entry, h_raised, h_result,
                   h_inputs, h_beh, h_cause, h_ok, last, h_round>>
    /\ UNCHANGED fvars

Next ==
    \/ \E inputs \in InputChoices :
          \E params \in IF rootKind = "loop" THEN LoopParamChoices
                        ELSE IF rootKind = "nested" THEN OuterParamChoices
                        ELSE PipelineParamChoices :
              Execute(inputs, params)
    \/ \E beh \in RoundBehaviours : \E dt \in ClockReads : Round(beh, dt)
    \/ \E behs \in [{n \in node_instances(Cur) : nodes[n].status = "pause"} -> Behaviours] :
          Resume(behs)
    \/ Tick

Spec == Init /\ [][Next]_vars

\* A round of the drive loop is taken: the steps of Round, which end the call
\* or flip the parity of the rounds.
RoundTaken ==
    /\ pc = "run"
    /\ root_read_node_calls(Cur) < MaxCalls
    /\ \/ pc' = "idle" /\ h_round' = 0
       \/ pc' = "run" /\ h_round' = 1 - h_round

\* The drive loop of a running execute() keeps taking rounds, and the
\* monotonic clock keeps advancing.
LiveSpec == Spec /\ WF_vars(Tick) /\ WF_<<pc, h_round>>(RoundTaken)

\* --------------------------------------------------------- pure functions
\* The lists of child statuses handed to _aggregate_status have at most
\* MaxLen elements.
MaxLen == 3

Statuses == {"ready", "executing", "done", "pause", "limit", "fatal"}

StatusLists == UNION {[1..k -> Statuses] : k \in 0..MaxLen}

\* A pure function is applied to arguments and gives a result.
Applied(name, args, res) ==
    /\ fn' = name
    /\ fn_in' = args
    /\ fn_out' = res
    /\ UNCHANGED kvars

\* _aggregate_status(statuses) is called.
Aggregate(statuses) == Applied("_aggregate_status", statuses, _aggregate_status(statuses))

\* JSON values as the output ports carry them: ints, true, strings, dicts.
JInt(k) == [n |-> k, ty |-> "int"]

JTrue == [n |-> 1, ty |-> "bool"]

JStr(kind, of) == [kind |-> kind, of |-> of, ty |-> "str"]

JDict(d) == [d |-> d, ty |-> "dict"]

JEmpty == JDict(EmptyDict)

\* Dict literals of one and of two keys, and d with d[k] = val.
D1(k, val) == [x \in {k} |-> val]

D2(k1, v1, k2, v2) == [x \in {k1, k2} |-> IF x = k1 THEN v1 ELSE v2]

With(d, k, val) == [x \in DOMAIN d \cup {k} |-> IF x = k THEN val ELSE d[x]]

\* The nested values, the _meta dicts and the port values run() can return.
Tags == {JDict(D1("tag", JInt(t))) : t \in 1..2}

Children ==
    {JDict(D1("w", JInt(w))) : w \in 1..2}
    \cup {JDict(D2("w", JInt(w), "_meta", m)) : w \in 1..2, m \in Tags}

PortMetas ==
    Tags \cup {JEmpty, JDict(D1("hash_skip", JTrue)),
               JDict(D1("revision", JStr("caller", <<>>)))}

Payloads ==
    {D1("v", JInt(k)) : k \in 1..MaxVal}
    \cup {D2("v", JInt(k), "child", c) : k \in 1..MaxVal, c \in Children}

JsonPorts ==
    {JDict(p) : p \in Payloads} \cup {JDict(With(p, "_meta", m)) : p \in Payloads, m \in PortMetas}

\* A _strip_meta that removes _meta at the top level only.
_strip_meta_top_level_only(value) ==
    IF value.ty = "dict"
    THEN JDict([k \in DOMAIN value.d \ {"_meta"} |-> value.d[k]])
    ELSE value

\* _strip_meta: _meta removed at every level.
RECURSIVE _strip_meta(_)
_strip_meta(value) ==
    IF value.ty = "dict"
    THEN JDict([k \in DOMAIN value.d \ {"_meta"} |-> _strip_meta(value.d[k])])
    ELSE value

\* json.dumps(obj, sort_keys=True, separators=(",", ":")): the text as its
\* sequence of tokens, the keys of a dict in sorted order.
SortedKeyList == <<"_meta", "child", "hash_skip", "revision", "tag", "v", "w">>

SortedKeys(d) == SelectSeq(SortedKeyList, LAMBDA k : k \in DOMAIN d)

Digits == <<"0", "1", "2", "3", "4", "5", "6", "7", "8", "9">>

RECURSIVE dumps(_)
RECURSIVE dumps_items(_, _, _)
dumps_items(d, keys, i) ==
    IF i > Len(keys) THEN <<>>
    ELSE (IF i > 1 THEN <<",">> ELSE <<>>)
         \o <<"\"", keys[i], "\"", ":">> \o dumps(d[keys[i]])
         \o dumps_items(d, keys, i + 1)

dumps(value) ==
    IF value.ty = "dict" THEN <<"{">> \o dumps_items(value.d, SortedKeys(value.d), 1) \o <<"}">>
    ELSE IF value.ty = "int" THEN <<Digits[value.n + 1]>>
    ELSE IF value.ty = "bool" THEN <<"true">>
    ELSE <<"\"", value.kind, "\"">>

_canonical_bytes(obj) == dumps(obj)

\* hashlib.sha256(raw).hexdigest(): distinct inputs have distinct digests.
sha256_hexdigest(raw) == JStr("sha256", raw)

\* str(uuid.uuid4()), the k-th value drawn.
uuid4_str(u) == JStr("uuid", <<Digits[u.n + 1]>>)

\* The body of the loop of _apply_revision_to_output on one dict port value.
port_with_meta(pv) == IF "_meta" \in DOMAIN pv.d THEN pv ELSE JDict(With(pv.d, "_meta", JEmpty))

set_revision(pv, rev) ==
    JDict(With(pv.d, "_meta", JDict(With(pv.d["_meta"].d, "revision", rev))))

stamp_revision(pv, uuid) ==
    IF "revision" \in DOMAIN pv.d["_meta"].d THEN pv
    ELSE IF "hash_skip" \in DOMAIN pv.d["_meta"].d /\ pv.d["_meta"].d["hash_skip"] = JTrue
    THEN set_revision(pv, uuid4_str(uuid))
    ELSE set_revision(pv, sha256_hexdigest(_canonical_bytes(_strip_meta(pv))))

apply_revision_to_port(pv, uuid) == stamp_revision(port_with_meta(pv), uuid)

\* _apply_revision_to_output is called on the outputs of two executions.
Stamp(p1, p2, u1, u2) ==
    Applied("_apply_revision_to_output", <<p1, p2>>,
            <<apply_revision_to_port(p1, u1), apply_revision_to_port(p2, u2)>>)

\* The outputs and conditions _evaluate_condition_impl is applied to: the
\* final node's stored output, where the port's key v holds an int or null,
\* and conditions over the paths $, $.out, $.out.v, $.out.w and $.w.
ConditionOutputs ==
    {EmptyDict}
    \cup {[p \in {"out"} |-> PortValue(k, "dict", CallerRev)] : k \in {None} \cup 1..MaxVal}
    \cup {[p \in {"out"} |-> pv] :
            pv \in {PortValue(1, "absent", NoRev), PortValue(1, "revstr", NoRev),
                    PortValue(1, "str", NoRev), PortValue(1, "hash_skip", DefaultUuid),
                    PortValue(1, "dict", Sha256OfPayload(PortValue(1, "absent", NoRev)))}}

ConditionPaths ==
    {<<>>, <<"out">>, <<"out", "v">>, <<"out", "w">>, <<"w">>, <<"out", "_meta">>,
     <<"out", "_meta", "revision">>, <<"out", "_meta", "hash_skip">>, <<"out", "v", "w">>}

ConditionOps == {"equals", "not_equals", "less_than", "greater_than"}

\* The reference strings of conditions: "x", "revision", a digest and the
\* revision a caller wrote.
StrRefs ==
    {Text("x"), Text("revision"), RevisionText([kind |-> "sha256", n |-> 1]),
     RevisionText(CallerRev)}

FnConditions ==
    {Condition(path, op, ref) : path \in ConditionPaths, op \in ConditionOps, ref \in 1..MaxVal}
    \cup {StrCondition(path, op, ref) :
            path \in ConditionPaths, op \in ConditionOps, ref \in StrRefs}

\* _evaluate_condition_impl(output, condition) is called.
Evaluate(output, cond) ==
    Applied("_evaluate_condition_impl", <<output, cond>>, _evaluate_condition_impl(output, cond))

\* A reference string "${src.key}" as a JSON string value.
RefString(src, key) == JStr("ref", <<src, key>>)

\* loader.resolve_params on one value of params_def, and on the whole map:
\* ${params.k} and ${inputs.k} are looked up, any other reference string and
\* any reference that is not found stay as they are, nested maps are resolved.
RECURSIVE resolve_params(_, _, _, _)
resolve_param_value(v, p_params, outputs, p_inputs) ==
    IF v.ty = "str" /\ v.kind = "ref"
    THEN IF v.of[1] = "params" /\ v.of[2] \in DOMAIN p_params THEN p_params[v.of[2]]
         ELSE IF v.of[1] = "inputs" /\ v.of[2] \in DOMAIN p_inputs THEN p_inputs[v.of[2]]
         ELSE v
    ELSE IF v.ty = "dict" THEN JDict(resolve_params(v.d, p_params, outputs, p_inputs))
    ELSE v

resolve_params(params_def, p_params, outputs, p_inputs) ==
    [k \in DOMAIN params_def |-> resolve_param_value(params_def[k], p_params, outputs, p_inputs)]

\* The params of a node definition, the pipeline params, the store and the
\* pipeline inputs that resolve_params is applied to.
ParamValues ==
    {JInt(1)}
    \cup {RefString(src, key) :
            src \in {"params", "inputs", "a", "c"}, key \in {"k", "out", "zz"}}

ParamDefs ==
    {EmptyDict}
    \cup {D1("p", v) : v \in ParamValues}
    \cup {D1("n", JDict(D1("m", v))) : v \in ParamValues}

ParamSources == {EmptyDict} \cup {D1("k", JInt(k)) : k \in 1..MaxVal}

ParamStores == {EmptyDict, D1("a", D1("out", JDict(D1("v", JInt(1)))))}

\* resolve_params(params_def, pipeline_params, latest_outputs, pipeline_inputs) is called.
ResolveParams(params_def, p_params, outputs, p_inputs) ==
    Applied("resolve_params", <<params_def, p_params, outputs, p_inputs>>,
            resolve_params(params_def, p_params, outputs, p_inputs))

\* The bindings, store, pipeline inputs and pipeline params that
\* resolve_inputs is applied to.
BindingRefs ==
    {Literal}
    \cup {Ref(src, key) : src \in {"inputs", "params", "a", "c"}, key \in {"out", "zz"}}

BindingMaps == UNION {[ports -> BindingRefs] : ports \in SUBSET {"x", "y"}}

InputStores == {EmptyDict, D1("a", D1("out", PortValue(1, "dict", CallerRev)))}

InputSources == {EmptyDict, D1("out", InputValue(1))}

\* What Runner.execute_node computes: the resolved bindings, and the inputs it
\* passes to node.execute().
resolve_and_filter(resolved) == [resolved |-> resolved, inputs |-> omit_unresolved(resolved)]

\* resolve_inputs(bindings, latest_outputs, pipeline_inputs, pipeline_params) is
\* called by Runner.execute_node.
ResolveInputs(bindings, outputs, p_inputs, p_params) ==
    Applied("resolve_inputs", <<bindings, outputs, p_inputs, p_params>>,
            resolve_and_filter(resolve_bindings(Sources(outputs, p_inputs, p_params), bindings)))

\* The pure functions are applied to arguments drawn from bounded sets, next to
\* a pipeline that is never run.
FnInit ==
    /\ KernelInit
    /\ rootKind = "pipeline"
    /\ graph = Graph(<<>>, "a", NoBindings, ReqB({}))
    /\ FnNone

\* Each function is applied once, to every choice of arguments.
FnNext ==
    \/ /\ fn = "none"
       /\ \E statuses \in StatusLists : Aggregate(statuses)
    \/ /\ fn = "none"
       /\ \E p1 \in JsonPorts, p2 \in JsonPorts, u1 \in UuidRevs, u2 \in UuidRevs :
             Stamp(p1, p2, u1, u2)
    \/ /\ fn = "none"
       /\ \E output \in ConditionOutputs, cond \in FnConditions : Evaluate(output, cond)
    \/ /\ fn = "none"
       /\ \E bindings \in BindingMaps, outputs \in InputStores, p_inputs \in InputSources,
             p_params \in InputSources :
             ResolveInputs(bindings, outputs, p_inputs, p_params)
    \/ /\ fn = "none"
       /\ \E params_def \in ParamDefs, p_params \in ParamSources, outputs \in ParamStores,
             p_inputs \in ParamSources :
             ResolveParams(params_def, p_params, outputs, p_inputs)

FnSpec == FnInit /\ [][FnNext]_vars

TypeOK ==
    /\ pc \in {"idle", "run"}
    /\ DOMAIN output_keys = DOMAIN latest_outputs
    /\ \A n \in DOMAIN latest_outputs : output_keys[n] \in ItemOrders(latest_outputs[n])
    /\ DOMAIN outer.output_keys = DOMAIN outer.latest_outputs
    /\ \A n \in DOMAIN outer.latest_outputs :
          outer.output_keys[n] \in ItemOrders(outer.latest_outputs[n])
    /\ last.order \in ItemOrders(last.result)
    /\ \A n \in Ids : nodes[n].calls \in 0..(MaxCalls + 1)

\* ------------------------------------------------------------------- claims
\* Leaf executions performed so far, over all leaves.
LeafExecutions == h_exec["a"] + h_exec["b"]

\* A root execute() call has returned (or an exception has left it).
RootCallEnded == pc = "idle" /\ last.op \in {"execute", "round"} /\ last.returned

\* The statuses of all instantiated children are s.
AllChildren(s) == \A n \in node_instances(Cur) : nodes[n].status = s

\* C1: execute() never raises, on a leaf or on the root container, and it
\* returns {} whenever the call ends in pause, in fatal, or in limit caused by
\* the pre-limit hook or a LimitSignal.
C1_ExecuteNeverRaises ==
    /\ \A n \in Ids :
          /\ h_raised[n] = ""
          /\ (h_exec[n] > 0 /\ (\/ nodes[n].status \in {"pause", "fatal"}
                                \/ h_cause[n] \in {"pre", "LimitSignal"}))
                => h_result[n] = EmptyDict
    /\ RootCallEnded =>
          /\ last.raised = ""
          /\ root_status(Cur) \in {"pause", "fatal"} => last.result = EmptyDict

\* C2: once an execute() call on a node is over, the node's status is one of
\* done, pause, limit, fatal: every call passes executing and ends in exactly
\* one terminal status.
C2_OneTerminalPerExecute ==
    /\ \A n \in Ids : h_exec[n] > 0 => (h_entry[n] = "executing" /\ nodes[n].status \in Terminal)
    /\ (pc = "idle" /\ h_p_exec > 0)
          => (h_entry["$pipeline"] = "executing" /\ pipeline.status \in Terminal)
    /\ (pc = "idle" /\ h_l_exec > 0)
          => (h_entry["$loop"] = "executing" /\ loop.status \in Terminal)

\* C3: a leaf's read_node_calls() equals the number of execute() invocations
\* made on it, whatever way each of them ended.
C3_LeafCallsCountInvocations ==
    \A n \in Ids : BaseNode_read_node_calls(nodes[n]) = h_exec[n]

\* C3 witness: a leaf executed at least twice whose latest call was stopped by
\* the pre-limit hook, before run().
C3_Witness ==
    \E n \in Ids : h_exec[n] >= 2 /\ h_cause[n] = "pre" /\ nodes[n].status = "limit"

\* C4: read_node_calls() of a PipelineNode is its own execute() invocations plus
\* the sum over its children; of a LoopNode its own plus its inner pipeline's.
C4_StructuralCallsAreSelfPlusSubtree ==
    /\ PipelineNode_read_node_calls(Cur) = h_p_exec + LeafExecutions
    /\ rootKind = "loop" =>
          LoopNode_read_node_calls(Cur) = h_l_exec + PipelineNode_read_node_calls(Cur)

\* C4 witness: a LoopNode whose resume() has re-executed a paused child.
C4_Witness ==
    /\ rootKind = "loop"
    /\ last.op = "resume"
    /\ last.ran # {}
    /\ \E n \in last.ran : h_exec[n] >= 2

\* C5 as stated: after a successful run the root's read_node_calls() equals the
\* number of leaf executions performed.
C5_RootCallsAreLeafExecutions ==
    (RootCallEnded /\ root_status(Cur) = "done") => root_read_node_calls(Cur) = LeafExecutions

\* C5 amended: after a successful run the root's read_node_calls() equals the
\* leaf executions plus the execute() invocations on the structural nodes: 2
\* for the Hello pipeline, 3 for the chain when a and b each run once, and
\* 1 + iterations * (1 + body-calls) for a loop.
C5_RootCallsCountStructuralNodes ==
    (RootCallEnded /\ root_status(Cur) = "done") =>
        /\ root_read_node_calls(Cur) = LeafExecutions + h_p_exec + h_l_exec + outer.h_exec
        /\ (rootKind = "pipeline" /\ h_p_exec = 1 /\ nodes_list = <<"a">> /\ final_id = "a")
              => root_read_node_calls(Cur) = 2
        /\ (/\ rootKind = "pipeline"
            /\ h_p_exec = 1
            /\ graph = Graph(<<"b", "a">>, "b", BindB(Ref("a", "out")), ReqB({"x"}))
            /\ h_ok["a"] /\ h_ok["b"])
              => root_read_node_calls(Cur) = 3
        /\ (rootKind = "loop" /\ h_l_exec = 1 /\ nodes_list = <<"a">>)
              => root_read_node_calls(Cur) = 1 + iteration * (1 + 1)

\* C5 witness: a LoopNode over a one-leaf body that is done after two iterations.
C5_Witness ==
    /\ RootCallEnded
    /\ rootKind = "loop"
    /\ loop.status = "done"
    /\ nodes_list = <<"a">>
    /\ iteration = 2
    /\ h_exec["a"] = 2

\* C6: the chain a, b (declared in that order, b's required input x bound to
\* ${a.out}, final b, a and b always done with port "out", no call limit below
\* 4): execute() ends with status done, b has been executed, and the final
\* output is b's output.
C6_LinearChainCompletes ==
    (/\ rootKind = "pipeline"
     /\ graph = Graph(<<"a", "b">>, "b", BindB(Ref("a", "out")), ReqB({"x"}))
     /\ pipeline_params.max_total_node_calls \in {None, 4}
     /\ h_p_exec = 1
     /\ RootCallEnded
     /\ h_ok["a"] /\ h_ok["b"])
        => /\ pipeline.status = "done"
           /\ h_exec["b"] >= 1
           /\ get_final_output(Cur) = h_result["b"]

\* C7: a step() executes the executable node that is earliest in graph.nodes;
\* exactly one node when it returns true, none when it returns false.
C7_StepRunsEarliestExecutable ==
    last.op = "round" =>
        /\ last.scan = {} => (last.ran = {} /\ ~last.progressed)
        /\ last.scan # {} =>
              last.ran = {nodes_list[Min({i \in DOMAIN nodes_list : nodes_list[i] \in last.scan})]}
        /\ last.progressed => Cardinality(last.ran) = 1
        /\ (~last.progressed /\ last.ran # {}) => \E n \in last.ran : h_raised[n] # ""

\* C7 witness: a step() that found two executable nodes and ran the first listed.
C7_Witness ==
    /\ last.op = "round"
    /\ Cardinality(last.scan) = 2
    /\ last.progressed
    /\ last.ran = {nodes_list[1]}

\* C8: a child whose status is limit or fatal is never executed again: its
\* status and its node_calls do not change in any later step.
C8_LimitFatalSticky ==
    [][\A n \in Ids :
          nodes[n].status \in {"limit", "fatal"} =>
              (nodes'[n] = nodes[n] /\ h_exec'[n] = h_exec[n])]_vars

\* C8 witness: a step() or a resume() sweep executed some node while another
\* child was limit or fatal, and left that child alone.
C8_Witness ==
    \E n \in Ids :
        /\ nodes[n].status \in {"limit", "fatal"}
        /\ last.op \in {"round", "resume"}
        /\ last.ran # {}
        /\ n \notin last.ran

\* C9: resume() on a container whose status is not pause raises
\* InvalidStateError and changes no child and no stored output.
C9_ResumeNeedsPause ==
    [][(last'.op = "resume" /\ last' # last /\ last'.before # "pause") =>
          /\ last'.raised = "InvalidStateError"
          /\ nodes' = nodes
          /\ latest_outputs' = latest_outputs
          /\ h_exec' = h_exec]_vars

\* C9 witness: resume() was refused on a container that is not paused while one
\* of its children is.
C9_Witness ==
    /\ last.op = "resume"
    /\ last.raised = "InvalidStateError"
    /\ root_status(Cur) # "pause"
    /\ \E n \in node_instances(Cur) : nodes[n].status = "pause"

\* C10: when resume() re-executes the final leaf, the only paused child, and it
\* ends done with a non-empty output, the pipeline's status is done and the
\* final output is that leaf's stamped output.
C10_ResumeCompletesPipeline ==
    (/\ rootKind = "pipeline"
     /\ last.op = "resume"
     /\ last.before = "pause"
     /\ last.raised = ""
     /\ last.ran = {final_id}
     /\ nodes[final_id].status = "done"
     /\ h_result[final_id] # EmptyDict
     /\ AllChildren("done"))
        => /\ pipeline.status = "done"
           /\ get_final_output(Cur) = h_result[final_id]

\* The statuses of the instantiated children.
ChildStatuses == {nodes[n].status : n \in node_instances(Cur)}

\* The non-success status that wins among a set of statuses ("": none).
NonSuccessOf(sts) ==
    IF "fatal" \in sts THEN "fatal"
    ELSE IF "limit" \in sts THEN "limit"
    ELSE IF "pause" \in sts THEN "pause"
    ELSE ""

\* A container-level limit of the pipeline's params is breached.
LimitBreached ==
    \/ /\ pipeline_params.max_total_node_calls # None
       /\ h_p_exec + LeafExecutions >= pipeline_params.max_total_node_calls
    \/ /\ pipeline_params.max_idle_sec # None
       /\ idle_elapsed # None
       /\ idle_elapsed >= pipeline_params.max_idle_sec

\* The step() of the last round returned (no exception left it).
StepReturned == last.op = "round" /\ \A n \in last.ran : h_raised[n] = ""

\* C11: when, after a step and with no container-level limit breached, the
\* aggregate of the children's statuses is fatal, limit or pause, the pipeline's
\* execute() returns {} and the pipeline's status is that aggregate.
C11_NonSuccessPropagates ==
    (StepReturned /\ ~LimitBreached /\ NonSuccessOf(ChildStatuses) # "") =>
        /\ pipeline.status = NonSuccessOf(ChildStatuses)
        /\ rootKind = "pipeline" =>
              (last.returned /\ last.result = EmptyDict /\ last.raised = "")

\* C11 witness: a child raised PauseSignal in a step while the final node had a
\* stored output; the pipeline is pause and execute() returned {}.
C11_Witness ==
    /\ rootKind = "pipeline"
    /\ StepReturned
    /\ ~LimitBreached
    /\ \E n \in last.ran : h_cause[n] = "PauseSignal"
    /\ pipeline.status = "pause"
    /\ get_final_output(Cur) # EmptyDict
    /\ last.result = EmptyDict

\* The elements of a sequence.
Range(seq) == {seq[i] : i \in DOMAIN seq}

\* A leaf threw from run() in the step of the last round.
LeafThrewInLastStep == last.op = "round" /\ \E n \in last.ran : h_cause[n] = "Exception"

\* Child n is fatal.
IsFatalChild(n) == nodes[n].status = "fatal"

\* The causes of the fatal children, in graph.nodes order.
FatalChildCauses ==
    [i \in DOMAIN SelectSeq(nodes_list, IsFatalChild) |->
        nodes[SelectSeq(nodes_list, IsFatalChild)[i]].error]

\* C12 as stated: when a leaf inside a pipeline throws from run(), the
\* pipeline's status after execute() is fatal (and so is a wrapping loop's).
C12_LeafThrowMakesPipelineFatal ==
    LeafThrewInLastStep =>
        /\ pipeline.status = "fatal"
        /\ rootKind = "loop" => loop.status = "fatal"

\* C12 amended: when a leaf inside a pipeline throws from run() and no
\* container-level limit is breached at that step, the pipeline (and a loop
\* wrapping it) ends fatal; whether or not a limit is breached, read_error() of
\* the pipeline and of the loop contains the leaf's exception; read_error() of
\* a structural node lists the children's causes in order, then its own.
C12_FatalPropagates ==
    /\ (LeafThrewInLastStep /\ ~LimitBreached) =>
          /\ pipeline.status = "fatal"
          /\ rootKind = "loop" => loop.status = "fatal"
    /\ \A n \in node_instances(Cur) :
          (h_cause[n] = "Exception" /\ nodes[n].status = "fatal") =>
              /\ nodes[n].error = "RuntimeError"
              /\ nodes[n].error \in Range(PipelineNode_read_error(Cur))
              /\ rootKind = "loop" => nodes[n].error \in Range(LoopNode_read_error(Cur))
    /\ PipelineNode_read_error(Cur) = FatalChildCauses \o own_error(pipeline)
    /\ rootKind = "loop" =>
          LoopNode_read_error(Cur) = FatalChildCauses \o own_error(pipeline) \o own_error(loop)

\* C12 witness: a leaf threw in the last step, a second child is fatal for
\* another cause, and read_error() lists both causes.
C12_Witness ==
    /\ LeafThrewInLastStep
    /\ ~LimitBreached
    /\ pipeline.status = "fatal"
    /\ Len(PipelineNode_read_error(Cur)) = 2
    /\ PipelineNode_read_error(Cur)[1] # PipelineNode_read_error(Cur)[2]

\* The first element of the priority list prio that occurs in the list sts, and
\* ready if none does.
RECURSIVE FirstOccurring(_, _)
FirstOccurring(prio, sts) ==
    IF prio = <<>> THEN "ready"
    ELSE IF Head(prio) \in Range(sts) THEN Head(prio)
    ELSE FirstOccurring(Tail(prio), sts)

\* C13: for every list S of child statuses, _aggregate_status(S) is the first
\* element of [fatal, limit, pause, executing, done, ready] that occurs in S,
\* and ready when S is empty.
C13_AggregationLaw ==
    fn = "_aggregate_status" =>
        /\ fn_out = FirstOccurring(<<"fatal", "limit", "pause", "executing", "done", "ready">>,
                                   fn_in)
        /\ fn_in = <<>> => fn_out = "ready"

\* C13 witness: a list with done, pause and fatal, in that order, aggregated
\* to fatal.
C13_Witness ==
    /\ fn = "_aggregate_status"
    /\ fn_in = <<"done", "pause", "fatal">>
    /\ fn_out = "fatal"

\* Input port of node n is bound to ${producer.port} and resolves in the store.
BoundToStored(n, port) ==
    /\ graph.bindings[n][port].src \in Ids
    /\ graph.bindings[n][port].src \in DOMAIN latest_outputs
    /\ graph.bindings[n][port].key \in DOMAIN latest_outputs[graph.bindings[n][port].src]

\* C14: whenever a step() executes a node that receives an input bound to
\* ${producer.port}, the producer has run before and its status is done at the
\* time the consumer runs.
C14_ProducerDoneWhenConsumed ==
    [][\A n \in Ids :
          (last'.op = "round" /\ h_exec'[n] = h_exec[n] + 1) =>
              \A port \in DOMAIN graph.bindings[n] :
                  BoundToStored(n, port) =>
                      /\ h_exec[graph.bindings[n][port].src] > 0
                      /\ nodes[graph.bindings[n][port].src].status = "done"]_vars

\* The pipeline of the unresolved-input scenario, run with an idle limit only.
UnresolvedWithIdleLimit ==
    /\ rootKind = "pipeline"
    /\ graph = UnresolvedGraph
    /\ pipeline_params.max_idle_sec # None
    /\ pipeline_params.max_total_node_calls = None

\* Node b is declared with its required input x bound to ${c.out}, c not
\* declared, in a pipeline of any other nodes.
UnresolvedB ==
    /\ rootKind = "pipeline"
    /\ \E i \in DOMAIN graph.nodes : graph.nodes[i] = "b"
    /\ "x" \in graph.required["b"]
    /\ graph.bindings["b"] = [p \in {"x"} |-> Ref("c", "out")]

\* C15 as stated, for any pipeline with such a node b run with max_idle_sec:
\* when execute() has returned without an exception and every other leaf that
\* ran ended done, the pipeline's status is limit.
C15_AnyPipelineEndsLimit ==
    (/\ UnresolvedB
     /\ pipeline_params.max_idle_sec # None
     /\ pipeline_params.max_total_node_calls = None
     /\ RootCallEnded
     /\ last.raised = ""
     /\ h_ok["a"]) => pipeline.status = "limit"

\* C15: in a pipeline whose node b has a required input bound to ${c.out}, c
\* not declared, b is never executed: its status stays ready and its
\* node_calls 0.  When b is the only node and the pipeline is run with
\* max_idle_sec and without max_total_node_calls, execute() terminates, with
\* status limit, and not before max_idle_sec has elapsed since idleness was
\* first detected.
C15_UnresolvedInputIdleLimit ==
    /\ [](UnresolvedB =>
            (h_exec["b"] = 0 /\ nodes["b"].status = "ready" /\ nodes["b"].calls = 0))
    /\ []((UnresolvedWithIdleLimit /\ RootCallEnded) =>
            /\ pipeline.status = "limit"
            /\ idle_elapsed # None
            /\ idle_elapsed >= pipeline_params.max_idle_sec)
    /\ (UnresolvedWithIdleLimit /\ pc = "run" /\ h_p_exec < MaxCalls)
          ~> (pc = "idle" /\ pipeline.status = "limit")

\* C15 witness: the scenario's execute() has ended with limit in a round taken
\* when max_idle_sec had elapsed, b never run.
C15_Witness ==
    /\ UnresolvedWithIdleLimit
    /\ RootCallEnded
    /\ last.op = "round"
    /\ pipeline.status = "limit"
    /\ idle_elapsed = pipeline_params.max_idle_sec
    /\ h_exec["b"] = 0

\* The loop condition holds on the final node's latest output in the store.
ConditionHoldsOn(store) ==
    /\ final_id \in DOMAIN store
    /\ _evaluate_condition_impl(store[final_id], condition).exc = ""
    /\ _evaluate_condition_impl(store[final_id], condition).holds

\* C16: a LoopNode with a greater_than condition on the final node's count ends
\* done exactly in the first iteration whose count is greater than the
\* reference: when a round ends the loop's execute() with status done, the count
\* in the final output is greater than the reference, execute() returns the
\* pipeline's final output and the iteration counter stays; when a round starts
\* a further iteration, the condition did not hold on the final output.
C16_LoopEndsWhenConditionHolds ==
    [][(rootKind = "loop" /\ condition.op = "greater_than" /\ pc = "run") =>
        /\ (pc' = "idle" /\ loop'.status = "done") =>
              /\ ConditionHoldsOn(latest_outputs')
              /\ latest_outputs'[final_id]["out"].v > condition.ref
              /\ last'.result = latest_outputs'[final_id]
              /\ last'.raised = ""
              /\ iteration' = iteration
        /\ iteration' # iteration =>
              /\ iteration' = iteration + 1
              /\ ~ConditionHoldsOn(latest_outputs')]_vars

\* C16 witness: one execute() of the loop ran two iterations, the first with a
\* count that is not greater than the reference, and ended done in the second.
C16_Witness ==
    /\ rootKind = "loop"
    /\ condition.op = "greater_than"
    /\ h_l_exec = 1
    /\ pc = "idle"
    /\ last.op = "round"
    /\ loop.status = "done"
    /\ iteration = 2
    /\ last.result = latest_outputs[final_id]
    /\ latest_outputs[final_id]["out"].v > condition.ref

\* The condition was evaluated on the store without error and did not hold.
ConditionFalseOn(store) ==
    /\ final_id \in DOMAIN store
    /\ _evaluate_condition_impl(store[final_id], condition).exc = ""
    /\ ~_evaluate_condition_impl(store[final_id], condition).holds

\* C17: within one LoopNode.execute() the inner pipeline's execute() is invoked
\* at most max_iterations times; when iteration max_iterations ends done with
\* the condition false, the loop ends with status limit and execute() returns
\* {}; with max_iterations = 0 the inner pipeline is never executed.
C17_MaxIterations ==
    [][(rootKind = "loop" /\ l_args'.params.max_iterations # None) =>
        /\ h_body_exec' <= l_args'.params.max_iterations
        /\ (/\ pc = "run"
            /\ h_body_exec = l_args.params.max_iterations
            /\ pc' = "idle"
            /\ pipeline'.status = "done"
            /\ ConditionFalseOn(latest_outputs')) =>
              /\ loop'.status = "limit"
              /\ last'.result = EmptyDict
              /\ last'.raised = ""
        /\ (pc = "idle" /\ pc' = "run") => l_args'.params.max_iterations > 0
        /\ (l_args'.params.max_iterations = 0 /\ h_l_exec' # h_l_exec) =>
              /\ h_p_exec' = h_p_exec
              /\ pipeline' = pipeline
              /\ nodes' = nodes
              /\ loop'.status = "limit"
              /\ last'.result = EmptyDict]_vars

\* C17 witness: with max_iterations = 2 the pipeline was executed twice, ended
\* done both times with the condition false, and the loop ended limit with {}.
C17_Witness ==
    /\ rootKind = "loop"
    /\ l_args.params.max_iterations = 2
    /\ h_body_exec = 2
    /\ pc = "idle"
    /\ last.op = "round"
    /\ pipeline.status = "done"
    /\ ConditionFalseOn(latest_outputs)
    /\ loop.status = "limit"
    /\ last.result = EmptyDict

\* C17 witness for max_iterations = 0: execute() ended limit, no pipeline.execute().
C17_WitnessZero ==
    /\ rootKind = "loop"
    /\ l_args.params.max_iterations = 0
    /\ last.op = "execute"
    /\ loop.status = "limit"
    /\ h_p_exec = 0

\* Port value p takes the content-hash path: no hash_skip, no revision of its own.
HashedPort(p) ==
    \/ "_meta" \notin DOMAIN p.d
    \/ /\ "revision" \notin DOMAIN p.d["_meta"].d
       /\ "hash_skip" \notin DOMAIN p.d["_meta"].d

\* p and q agree on every field that is not a _meta.
SameNonMetaFields(p, q) ==
    /\ p.d["v"] = q.d["v"]
    /\ ("child" \in DOMAIN p.d) = ("child" \in DOMAIN q.d)
    /\ "child" \in DOMAIN p.d => p.d["child"].d["w"] = q.d["child"].d["w"]

RevisionOf(p) == p.d["_meta"].d["revision"]

\* C18: for port values without hash_skip and without a revision of their own,
\* two stamped revisions are equal exactly when the port values agree on every
\* non-_meta field: the same stripped payload gives the same revision, a changed
\* non-_meta field changes it, a changed (nested) _meta alone does not.
C18_RevisionDeterminism ==
    (fn = "_apply_revision_to_output" /\ HashedPort(fn_in[1]) /\ HashedPort(fn_in[2])) =>
        /\ "revision" \in DOMAIN fn_out[1].d["_meta"].d
        /\ "revision" \in DOMAIN fn_out[2].d["_meta"].d
        /\ (RevisionOf(fn_out[1]) = RevisionOf(fn_out[2]))
              <=> SameNonMetaFields(fn_in[1], fn_in[2])

\* C18 witness: two port values that differ in a nested _meta only were stamped
\* with one revision.
C18_Witness ==
    /\ fn = "_apply_revision_to_output"
    /\ HashedPort(fn_in[1]) /\ HashedPort(fn_in[2])
    /\ "child" \in DOMAIN fn_in[1].d /\ "child" \in DOMAIN fn_in[2].d
    /\ "_meta" \in DOMAIN fn_in[1].d["child"].d
    /\ fn_in[1].d["child"] # fn_in[2].d["child"]
    /\ SameNonMetaFields(fn_in[1], fn_in[2])
    /\ RevisionOf(fn_out[1]) = RevisionOf(fn_out[2])

\* Every port of output dict d carries _meta.revision.
AllPortsStamped(d) == \A p \in DOMAIN d : d[p].rev # NoRev

\* C19: every port of every non-empty dict returned by execute() carries
\* _meta.revision, and so does every port of every entry of the
\* LatestOutputStore.
C19_EveryPortCarriesRevision ==
    /\ \A n \in DOMAIN latest_outputs : AllPortsStamped(latest_outputs[n])
    /\ \A o \in DOMAIN h_result : AllPortsStamped(h_result[o])
    /\ AllPortsStamped(last.result)

\* The store entry of node n, {} when it has none.
EntryOf(store, n) == IF n \in DOMAIN store THEN store[n] ELSE EmptyDict

\* C20: the store entry of a node changes only in a step in which an execute()
\* of that node returned a non-empty dict, and then it is that dict; an
\* execute() that returns {} leaves the node's entry as it was; no entry is
\* ever removed.
C20_StoreWriteRule ==
    [][/\ DOMAIN latest_outputs \subseteq DOMAIN latest_outputs'
       /\ \A n \in Ids :
            /\ (\/ EntryOf(latest_outputs', n) # EntryOf(latest_outputs, n)
                \/ (n \in DOMAIN latest_outputs') # (n \in DOMAIN latest_outputs)) =>
                  /\ h_exec'[n] = h_exec[n] + 1
                  /\ h_result'[n] # EmptyDict
                  /\ latest_outputs'[n] = h_result'[n]
            /\ (h_exec'[n] # h_exec[n] /\ h_result'[n] = EmptyDict) =>
                  /\ (n \in DOMAIN latest_outputs') = (n \in DOMAIN latest_outputs)
                  /\ EntryOf(latest_outputs', n) = EntryOf(latest_outputs, n)
            /\ (h_exec'[n] # h_exec[n] /\ h_result'[n] # EmptyDict) =>
                  /\ n \in DOMAIN latest_outputs'
                  /\ latest_outputs'[n] = h_result'[n]]_vars

\* C20 witness: a node with an entry in the store was executed again, returned
\* {}, and its earlier output is still in the store.
C20_Witness ==
    \E n \in Ids :
        /\ n \in last.ran
        /\ h_exec[n] >= 2
        /\ h_result[n] = EmptyDict
        /\ nodes[n].status \in {"pause", "fatal", "limit", "done"}
        /\ n \in DOMAIN latest_outputs
        /\ latest_outputs[n] # EmptyDict

\* Node n is declared in graph.nodes, so that build_runner made an instance.
Declared(n) == \E i \in DOMAIN nodes_list : nodes_list[i] = n

\* The binding of port p of node n can be looked up now: it is a literal, or a
\* pipeline input that was given, or a top-level key of the params, or a port
\* of an output in the store.
BindingResolves(n, p) ==
    /\ p \in DOMAIN graph.bindings[n]
    /\ \/ graph.bindings[n][p].src = "literal"
       \/ /\ graph.bindings[n][p].src = "inputs"
          /\ graph.bindings[n][p].key \in DOMAIN pipeline_inputs
       \/ /\ graph.bindings[n][p].src = "params"
          /\ graph.bindings[n][p].key = "limit"
          /\ \E k \in DOMAIN pipeline_params : pipeline_params[k] # None
       \/ /\ graph.bindings[n][p].src \in DOMAIN latest_outputs
          /\ graph.bindings[n][p].key \in DOMAIN latest_outputs[graph.bindings[n][p].src]

\* C21: is_executable(n) is true exactly when n has an instance, its status is
\* ready or done, and every required input port resolves; so a done node whose
\* required inputs resolve is executable again and a node that is executing,
\* pause, limit or fatal is not; step() runs only a node that is_executable
\* admitted.
C21_ExecutabilityOracle ==
    /\ \A n \in Ids :
          is_executable(Cur, n) <=>
              /\ runner /\ Declared(n)
              /\ nodes[n].status \in {"ready", "done"}
              /\ \A p \in graph.required[n] : BindingResolves(n, p)
    /\ \A n \in Ids :
          nodes[n].status \in {"executing", "pause", "limit", "fatal"} => ~is_executable(Cur, n)
    /\ last.op = "round" => last.ran \subseteq last.scan

\* C21 witness: b is done, its required input resolves, and b is executable
\* again; a is not executable because it paused.
C21_Witness ==
    /\ runner
    /\ graph.required["b"] = {"x"}
    /\ nodes["b"].status = "done"
    /\ is_executable(Cur, "b")
    /\ nodes["a"].status = "pause"
    /\ ~is_executable(Cur, "a")

\* Node n has a declared binding that resolves to UNRESOLVED now.
HasUnresolvedBinding(n) == \E p \in DOMAIN graph.bindings[n] : ~BindingResolves(n, p)

\* C22: a node whose type has no node.yaml is not executable, and is not run by
\* step(), while one of its declared bindings resolves to UNRESOLVED.
C22_MissingSchemaAllRequired ==
    \A n \in Ids :
        (runner /\ Declared(n) /\ ~graph.has_schema[n]) =>
            /\ HasUnresolvedBinding(n) => ~is_executable(Cur, n)
            /\ (last.op = "round" /\ n \in last.ran) =>
                  \A p \in DOMAIN graph.bindings[n] : p \in DOMAIN h_inputs[n]

\* The children are all ready or done, at least one is done: their aggregate is done.
ChildrenAggregateDone ==
    /\ \A n \in node_instances(Cur) : nodes[n].status \in {"ready", "done"}
    /\ \E n \in node_instances(Cur) : nodes[n].status = "done"

\* The final node has an instance and is done.
FinalNodeDone == final_id \in node_instances(Cur) /\ nodes[final_id].status = "done"

\* C23: whenever PipelineNode.execute() has ended with status done, the
\* aggregate of the child statuses is done, the final node is done, and the
\* dict returned is the final node's latest stored output.
C23_DoneOnlyWhenFinalDone ==
    (rootKind = "pipeline" /\ pc = "idle" /\ last.op \in {"execute", "round"}
        /\ pipeline.status = "done") =>
        /\ ChildrenAggregateDone
        /\ FinalNodeDone
        /\ last.result = EntryOf(latest_outputs, final_id)

\* C23 witness: execute() ended done on a two-node graph whose other node is
\* still ready, returning the final node's stored output.
C23_Witness ==
    /\ rootKind = "pipeline"
    /\ RootCallEnded
    /\ last.op = "round"
    /\ pipeline.status = "done"
    /\ Len(nodes_list) = 2
    /\ \E n \in node_instances(Cur) : nodes[n].status = "ready"
    /\ nodes[final_id].status = "done"
    /\ last.result # EmptyDict
    /\ last.result = latest_outputs[final_id]

\* The drive loop goes on while the aggregate is done and the final node is not.
C23_WitnessGoesOn ==
    /\ rootKind = "pipeline"
    /\ pc = "run"
    /\ last.op = "round"
    /\ ChildrenAggregateDone
    /\ ~FinalNodeDone

\* The node calls the pipeline reports have reached params.limit.max_total_node_calls.
CallLimitReached(calls, params) ==
    params.max_total_node_calls # None /\ calls >= params.max_total_node_calls

\* C24: a PipelineNode.execute() entered with max_total_node_calls reached ends
\* at once with status limit, returns {} and executes no child; when the limit
\* is reached after a step that returned, the pipeline ends with status limit
\* and returns the current output of the final node, whatever the status of
\* the child that just ran.
C24_PipelineCallLimit ==
    [][rootKind = "pipeline" =>
        /\ (pc = "idle" /\ last'.op = "execute"
                /\ CallLimitReached(PipelineNode_read_node_calls(Cur) + 1, pipeline_params')) =>
              /\ pc' = "idle"
              /\ pipeline'.status = "limit"
              /\ last'.result = EmptyDict
              /\ last'.raised = ""
              /\ h_exec' = h_exec
              /\ nodes' = nodes
        /\ (pc = "run" /\ last'.op = "round"
                /\ (\A n \in last'.ran : h_raised'[n] = "")
                /\ CallLimitReached(PipelineNode_read_node_calls(Cur) + Cardinality(last'.ran),
                                    pipeline_params)) =>
              /\ pc' = "idle"
              /\ pipeline'.status = "limit"
              /\ last'.result = EntryOf(latest_outputs', final_id)
              /\ last'.raised = ""]_vars

\* C24 witness: the child that just ran ended fatal or pause in the step that
\* reached max_total_node_calls, and the pipeline ended limit with the final
\* node's output.
C24_Witness ==
    /\ rootKind = "pipeline"
    /\ RootCallEnded
    /\ last.op = "round"
    /\ CallLimitReached(PipelineNode_read_node_calls(Cur), pipeline_params)
    /\ \E n \in last.ran : nodes[n].status \in {"fatal", "pause"}
    /\ pipeline.status = "limit"
    /\ last.result # EmptyDict
    /\ last.result = latest_outputs[final_id]

\* C24 witness at entry: execute() was entered with the limit reached.
C24_WitnessEntry ==
    /\ rootKind = "pipeline"
    /\ RootCallEnded
    /\ last.op = "execute"
    /\ h_p_exec >= 2
    /\ CallLimitReached(PipelineNode_read_node_calls(Cur) - 1, pipeline_params)
    /\ pipeline.status = "limit"
    /\ last.result = EmptyDict

\* In its latest execute() leaf n's run() returned a dict that the stamping
\* accepted, and check_limit_post returned true.
PostLimitFired(beh) ==
    /\ ~beh.pre
    /\ beh.run.kind = "return" /\ beh.run.isdict
    /\ \A p \in DOMAIN beh.run.ports : beh.run.ports[p].meta \notin {"notadict", "str"}
    /\ beh.post

\* Port value q is port value p after stamping: p itself if it came with a
\* revision (or was skipped), else p with a revision.
StampedFrom(p, q) ==
    /\ q.v = p.v
    /\ IF p.rev # NoRev \/ p.meta = "revstr" THEN q = p ELSE q.rev # NoRev

\* C25: when run() returns a dict and check_limit_post returns true, execute()
\* sets status limit and returns the stamped result, and step() stores it in
\* the LatestOutputStore; when check_limit_pre returns true, status is limit,
\* the result is {} and the node's store entry stays as it was.
C25_LimitHooks ==
    [][\A n \in Ids : (last'.op = "round" /\ h_exec'[n] # h_exec[n]) =>
        /\ PostLimitFired(h_beh'[n]) =>
              /\ nodes'[n].status = "limit"
              /\ nodes'[n].calls = nodes[n].calls + 1
              /\ h_raised'[n] = ""
              /\ DOMAIN h_result'[n] = DOMAIN h_beh'[n].run.ports
              /\ \A p \in DOMAIN h_result'[n] :
                    StampedFrom(h_beh'[n].run.ports[p], h_result'[n][p])
              /\ h_result'[n] # EmptyDict =>
                    n \in DOMAIN latest_outputs' /\ latest_outputs'[n] = h_result'[n]
        /\ h_beh'[n].pre =>
              /\ nodes'[n].status = "limit"
              /\ nodes'[n].calls = nodes[n].calls + 1
              /\ h_result'[n] = EmptyDict
              /\ EntryOf(latest_outputs', n) = EntryOf(latest_outputs, n)]_vars

\* C25 witness: the post-limit hook fired on a non-empty result, the node is
\* limit and its stamped result is in the store.
C25_Witness ==
    \E n \in Ids :
        /\ n \in last.ran
        /\ PostLimitFired(h_beh[n])
        /\ nodes[n].status = "limit"
        /\ h_result[n] # EmptyDict
        /\ \A p \in DOMAIN h_result[n] : h_result[n][p].rev.kind = "sha256"
        /\ latest_outputs[n] = h_result[n]

\* C25 witness for the pre-limit hook: limit, {} and the earlier entry kept.
C25_WitnessPre ==
    \E n \in Ids :
        /\ n \in last.ran
        /\ h_beh[n].pre
        /\ nodes[n].status = "limit"
        /\ h_result[n] = EmptyDict
        /\ n \in DOMAIN latest_outputs

\* C26: when the inner pipeline ends fatal or pause the LoopNode's execute()
\* ends with that status and {}; when it ends limit the loop ends limit with
\* the inner pipeline's final output; a further iteration starts only after
\* an iteration whose children aggregate to done; the loop ends done, or with
\* a new error of its own, only when the inner pipeline ended done.
C26_LoopStatusPropagation ==
    [][(rootKind = "loop" /\ last'.op \in {"execute", "round"}) =>
        /\ (pc' = "idle" /\ pipeline'.status \in {"fatal", "pause"} /\ h_body_exec' > 0) =>
              /\ loop'.status = pipeline'.status
              /\ last'.result = EmptyDict
              /\ last'.raised = ""
        /\ (pc' = "idle" /\ pipeline'.status = "limit" /\ h_body_exec' > 0) =>
              /\ loop'.status = "limit"
              /\ last'.result = EntryOf(latest_outputs', final_id)
              /\ last'.raised = ""
        /\ (pc = "run" /\ iteration' # iteration) =>
              /\ \A n \in node_instances(Cur) : nodes'[n].status \in {"ready", "done"}
              /\ \E n \in node_instances(Cur) : nodes'[n].status = "done"
        /\ (pc' = "idle" /\ (loop'.status = "done" \/ loop'.error # loop.error)) =>
              pipeline'.status = "done"]_vars

\* C26 witness: the inner pipeline ended limit in the second iteration and the
\* loop ended limit with the final node's output.
C26_Witness ==
    /\ rootKind = "loop"
    /\ RootCallEnded
    /\ last.op = "round"
    /\ iteration = 2
    /\ pipeline.status = "limit"
    /\ loop.status = "limit"
    /\ last.result # EmptyDict
    /\ last.result = latest_outputs[final_id]

\* C26 witness for pause: the inner pipeline paused and the loop ended pause with {}.
C26_WitnessPause ==
    /\ rootKind = "loop"
    /\ RootCallEnded
    /\ last.op = "round"
    /\ pipeline.status = "pause"
    /\ loop.status = "pause"
    /\ last.result = EmptyDict

\* The path of the condition names a key that the output holds.
KeyPresent(output, path) ==
    \/ path = <<"out">> /\ "out" \in DOMAIN output
    \/ path = <<"out", "v">> /\ "out" \in DOMAIN output
    \/ /\ path = <<"out", "_meta">>
       /\ "out" \in DOMAIN output
       /\ output["out"].meta # "absent"
    \/ /\ path = <<"out", "_meta", "revision">>
       /\ "out" \in DOMAIN output
       /\ output["out"].meta \in {"dict", "hash_skip"}
       /\ output["out"].rev # NoRev
    \/ /\ path = <<"out", "_meta", "hash_skip">>
       /\ "out" \in DOMAIN output
       /\ output["out"].meta = "hash_skip"

\* The path (other than $) names a key that the output does not hold.
KeyMissing(output, path) == path # <<>> /\ ~KeyPresent(output, path)

\* C27, the errors: a condition whose path names a missing key raises
\* ValueError; less_than or greater_than on a present value raises TypeError
\* when the value or the reference is not numeric.
C27_ConditionErrors ==
    fn = "_evaluate_condition_impl" =>
        /\ KeyMissing(fn_in[1], fn_in[2].path) => fn_out.exc = "ValueError"
        /\ (/\ fn_in[2].path = <<"out">> /\ "out" \in DOMAIN fn_in[1]
            /\ fn_in[2].op \in {"less_than", "greater_than"}) => fn_out.exc = "TypeError"
        /\ (/\ fn_in[2].path = <<"out", "v">> /\ "out" \in DOMAIN fn_in[1]
            /\ fn_in[1]["out"].v # None
            /\ fn_in[2].op \in {"less_than", "greater_than"}
            /\ fn_in[2].ref_ty # "int") => fn_out.exc = "TypeError"

\* C27: a key that is present is evaluated by equals / not_equals, by equality
\* with the reference, and yields no error.
C27_PresentKeyIsEvaluated ==
    (/\ fn = "_evaluate_condition_impl"
     /\ KeyPresent(fn_in[1], fn_in[2].path)
     /\ fn_in[2].op \in {"equals", "not_equals"}) =>
        fn_out.exc = ""

\* C28: the runner, the node instances and the LatestOutputStore are built on
\* the first execute() of a pipeline only: once built they stay; an execute()
\* entered later leaves every child and every store entry as it was and
\* replaces only the runner's pipeline inputs and params; across all steps,
\* loop iterations included, no child's node_calls decreases and no stored
\* output disappears.
C28_InstanceReuse ==
    [][/\ runner => runner'
       /\ (~runner /\ runner') =>
             /\ h_p_exec = 0
             /\ h_p_exec' = 1
             /\ last'.op = IF rootKind = "nested" THEN "outer" ELSE "execute"
       /\ \A n \in Ids : nodes'[n].calls >= nodes[n].calls
       /\ DOMAIN latest_outputs \subseteq DOMAIN latest_outputs'
       /\ (runner /\ last'.op = "execute") =>
             /\ nodes' = nodes
             /\ latest_outputs' = latest_outputs
       /\ (runner /\ pc = "run" /\ iteration' # iteration) =>
             \A n \in Ids : n \notin last'.ran =>
                 /\ nodes'[n] = nodes[n]
                 /\ EntryOf(latest_outputs', n) = EntryOf(latest_outputs, n)]_vars

\* C28 witness: a later execute() of the pipeline was entered with other
\* params; the children and the store of the earlier call are still there.
C28_Witness ==
    /\ rootKind = "pipeline"
    /\ last.op = "execute"
    /\ pc = "run"
    /\ h_p_exec >= 2
    /\ pipeline_params.max_total_node_calls = 4
    /\ \E n \in Ids : nodes[n].calls >= 1 /\ n \in DOMAIN latest_outputs

\* C28 witness for the loop: a second iteration was entered on the instances
\* and the store of the first.
C28_WitnessLoop ==
    /\ rootKind = "loop"
    /\ pc = "run"
    /\ iteration = 2
    /\ nodes["a"].calls >= 1
    /\ "a" \in DOMAIN latest_outputs

\* What the reference string v stands for, given the pipeline params, the
\* store and the pipeline inputs; v itself when the lookup fails.
Referent(v, p_params, outputs, p_inputs) ==
    IF v.of[1] = "params"
    THEN IF v.of[2] \in DOMAIN p_params THEN p_params[v.of[2]] ELSE v
    ELSE IF v.of[1] = "inputs"
    THEN IF v.of[2] \in DOMAIN p_inputs THEN p_inputs[v.of[2]] ELSE v
    ELSE IF v.of[1] \in DOMAIN outputs /\ v.of[2] \in DOMAIN outputs[v.of[1]]
    THEN outputs[v.of[1]][v.of[2]]
    ELSE v

\* Param value v resolved as the claim describes.
ResolvedAsClaimed(v, p_params, outputs, p_inputs) ==
    IF v.ty = "str" /\ v.kind = "ref" THEN Referent(v, p_params, outputs, p_inputs) ELSE v

\* C29: every param that is a reference string is resolved from the pipeline
\* inputs, the pipeline params or the producer's latest stored output, also
\* inside a nested map; a reference that does not resolve stays the literal
\* reference string.
C29_ParamResolution ==
    fn = "resolve_params" =>
        /\ DOMAIN fn_out = DOMAIN fn_in[1]
        /\ "p" \in DOMAIN fn_in[1] =>
              fn_out["p"] = ResolvedAsClaimed(fn_in[1]["p"], fn_in[2], fn_in[3], fn_in[4])
        /\ "n" \in DOMAIN fn_in[1] =>
              fn_out["n"].d["m"] =
                  ResolvedAsClaimed(fn_in[1]["n"].d["m"], fn_in[2], fn_in[3], fn_in[4])

\* C29 without the producer references: ${params.k} and ${inputs.k} are
\* resolved, also inside a nested map, and an unresolved one stays literal.
C29_ParamsAndInputsResolve ==
    (fn = "resolve_params" /\ "p" \in DOMAIN fn_in[1]
        /\ fn_in[1]["p"].ty = "str" /\ fn_in[1]["p"].of[1] \in {"params", "inputs"}) =>
        fn_out["p"] = Referent(fn_in[1]["p"], fn_in[2], fn_in[3], fn_in[4])

\* Where binding ref points: the dict it is looked up in, for a reference.
LookedUpIn(ref, outputs, p_inputs, p_params) ==
    IF ref.src = "inputs" THEN p_inputs
    ELSE IF ref.src = "params" THEN p_params
    ELSE IF ref.src \in DOMAIN outputs THEN outputs[ref.src]
    ELSE EmptyDict

\* C30: resolve_inputs maps every binding to a value: a literal binding to
\* itself, a reference to the value found in the pipeline inputs, the pipeline
\* params or the producer's stored output, and to UNRESOLVED when it is not
\* found; the inputs passed to execute() are the resolved bindings without the
\* UNRESOLVED ones, so that run() never receives UNRESOLVED.
C30_ResolutionTotalNoLeak ==
    fn = "resolve_inputs" =>
        /\ DOMAIN fn_out.resolved = DOMAIN fn_in[1]
        /\ \A port \in DOMAIN fn_in[1] :
              fn_out.resolved[port] =
                  IF fn_in[1][port] = Literal THEN LiteralValue
                  ELSE IF fn_in[1][port].key
                            \in DOMAIN LookedUpIn(fn_in[1][port], fn_in[2], fn_in[3], fn_in[4])
                  THEN LookedUpIn(fn_in[1][port], fn_in[2], fn_in[3], fn_in[4])[fn_in[1][port].key]
                  ELSE UNRESOLVED
        /\ \A port \in DOMAIN fn_out.inputs : fn_out.inputs[port] # UNRESOLVED
        /\ \A port \in DOMAIN fn_in[1] :
              IF fn_out.resolved[port] = UNRESOLVED THEN port \notin DOMAIN fn_out.inputs
              ELSE port \in DOMAIN fn_out.inputs /\ fn_out.inputs[port] = fn_out.resolved[port]

\* C30 witness: of two bindings one resolved from the store and one did not
\* resolve; the inputs hold the first only.
C30_Witness ==
    /\ fn = "resolve_inputs"
    /\ DOMAIN fn_in[1] = {"x", "y"}
    /\ fn_in[1]["x"] = Ref("a", "out")
    /\ fn_out.resolved["x"] = PortValue(1, "dict", CallerRev)
    /\ fn_out.resolved["y"] = UNRESOLVED
    /\ DOMAIN fn_out.inputs = {"x"}

\* C30 in the scheduler: no leaf was ever given UNRESOLVED as an input value.
C30_NoSentinelInRun ==
    \A n \in Ids : \A port \in DOMAIN h_inputs[n] : h_inputs[n][port] # UNRESOLVED

\* p's paused leaves were re-run by the last resume() and all of them are done.
ChildResumedToDone ==
    /\ rootKind = "nested"
    /\ last.op = "resume"
    /\ last.raised = ""
    /\ last.before = "pause"
    /\ last.ran # {}
    /\ \A n \in last.ran : nodes[n].status = "done"

\* C31: when resume() of a PipelineNode has resumed its paused structural child
\* p and p's paused leaves have completed successfully, the store of the
\* PipelineNode holds p's get_final_output() under p's id.
C31_StructuralChildResumed ==
    (ChildResumedToDone /\ get_final_output(Cur) # EmptyDict) =>
        /\ ChildId \in DOMAIN outer.latest_outputs
        /\ outer.latest_outputs[ChildId] = get_final_output(Cur)

\* C31, what the code does: after resume() has resumed p, p still reads pause
\* (whatever its leaves have become), the store of the outer PipelineNode is as
\* it was, and the sweep has not stopped on p.
C31_ChildStaysPaused ==
    [][(rootKind = "nested" /\ last'.op = "resume" /\ last'.raised = "" /\ last'.ran # {}) =>
          /\ pipeline'.status = "pause"
          /\ outer'.latest_outputs = outer.latest_outputs
          /\ outer'.node.status = "pause"]_vars

\* C32: every execute() call of the root eventually returns (as far as the
\* bound on the number of calls lets the model follow it), for every graph and
\* every limit configuration.
C32_DriveLoopTerminates ==
    pc = "run" ~> (pc = "idle" \/ root_read_node_calls(Cur) >= MaxCalls)

\* C32, what the code does: with max_idle_sec set, an execute() call on a
\* graph in which no node is ever executable returns.
C32_IdleLimitEndsIdleGraph ==
    (/\ pc = "run"
     /\ rootKind = "pipeline"
     /\ pipeline_params.max_idle_sec # None
     /\ \/ nodes_list = <<>>
        \/ graph = UnresolvedGraph)
    ~> (pc = "idle")

\* Some child of the PipelineNode is paused and none is fatal or limit.
PausedChildNoFailure ==
    /\ \E n \in node_instances(Cur) : nodes[n].status = "pause"
    /\ \A n \in node_instances(Cur) : nodes[n].status \notin {"fatal", "limit"}

\* C33: while no call is in progress, the PipelineNode's status is pause if and
\* only if one of its children is paused and none is fatal or limit.
C33_PauseConsistency ==
    (rootKind = "pipeline" /\ pc = "idle") => (pipeline.status = "pause" <=> PausedChildNoFailure)

\* C33, what the code does: at the return of an execute() call without limits
\* in which no leaf's execute() was left by an exception, the PipelineNode is
\* pause if and only if a child is paused and none is fatal or limit.
C33_PauseAfterExecute ==
    (/\ rootKind = "pipeline"
     /\ RootCallEnded
     /\ \A n \in Ids : nodes[n].status # "executing"
     /\ pipeline_params.max_total_node_calls = None
     /\ pipeline_params.max_idle_sec = None)
    => (pipeline.status = "pause" <=> PausedChildNoFailure)

\* The children executed by the step just taken.
ChildrenRun == {n \in Ids : h_exec'[n] > h_exec[n]}

\* C34: for a PipelineNode over leaves with max_total_node_calls = N >= 1: an
\* execute() call whose own entry brings read_node_calls() to N or more returns
\* at once and executes no child; a round of a call executes at most one
\* child, and only while read_node_calls() is below N; the call returns as
\* soon as read_node_calls() has reached N; so the children have been executed
\* at most N - 1 times in all, and read_node_calls() is at most N at the return
\* of a call that executed a child.
C34_CallBudget ==
    [][(/\ rootKind = "pipeline"
        /\ last'.op \in {"execute", "round"}
        /\ pipeline_params'.max_total_node_calls # None
        /\ pipeline_params'.max_total_node_calls >= 1) =>
          /\ (/\ last'.op = "execute"
              /\ PipelineNode_read_node_calls(Cur) + 1 >= pipeline_params'.max_total_node_calls)
                 => (pc' = "idle" /\ ChildrenRun = {} /\ pipeline'.status = "limit")
          /\ last'.op = "execute" => ChildrenRun = {}
          /\ last'.op = "round" =>
                /\ PipelineNode_read_node_calls(Cur) < pipeline_params.max_total_node_calls
                /\ Cardinality(ChildrenRun) <= 1
                /\ h_exec'["a"] + h_exec'["b"] <= h_exec["a"] + h_exec["b"] + 1
          /\ LET after == [Cur EXCEPT !.nodes = nodes', !.pipeline = pipeline', !.runner = runner']
             IN  /\ PipelineNode_read_node_calls(after) >= pipeline_params'.max_total_node_calls
                    => pc' = "idle"
                 /\ ChildrenRun # {} =>
                       /\ h_exec'["a"] + h_exec'["b"] <= pipeline_params'.max_total_node_calls - 1
                       /\ PipelineNode_read_node_calls(after) <= pipeline_params'.max_total_node_calls
       ]_vars

\* C34 witness: a call with max_total_node_calls = 4 has returned limit after
\* the third child execution; read_node_calls() is 4.
C34_Witness ==
    /\ rootKind = "pipeline"
    /\ RootCallEnded
    /\ last.ran # {}
    /\ pipeline_params.max_total_node_calls = 4
    /\ LeafExecutions = 3
    /\ PipelineNode_read_node_calls(Cur) = 4
    /\ pipeline.status = "limit"

\* C34 witness: a call entered with read_node_calls() at the budget returned
\* limit without executing a child.
C34_WitnessEntry ==
    /\ rootKind = "pipeline"
    /\ pc = "idle"
    /\ last.op = "execute"
    /\ last.ran = {}
    /\ pipeline_params.max_total_node_calls = 2
    /\ PipelineNode_read_node_calls(Cur) >= 3
    /\ LeafExecutions >= 1
    /\ pipeline.status = "limit"
====
